---- MODULE Spec2Model ----
(***************************************************************************)
(* Pantry bot: the owner-scoped inventory store (OpenSearch indices        *)
(* pantry_items, pantry_categories, pantry_product_cache) and the chat     *)
(* handlers that drive it (scan -> category, review, categories, pantry).  *)
(*                                                                         *)
(* Text.  A Python str that is ever split on ':' (category names, button   *)
(* tokens, typed replies) is a non-empty sequence of ':'-free segments:    *)
(* <<"Dry", "Goods">> is "Dry:Goods", <<"">> is "", <<"", "x">> is ":x".   *)
(* str.split(":") is then the sequence itself and ":".join(parts[k:]) its  *)
(* suffix.  Barcodes and product names are never split in the modelled     *)
(* paths and are plain strings.  An optional value (a dict key that may be *)
(* missing, a None) is <<>> when missing and <<v>> when present.           *)
(*                                                                         *)
(* Updates are dispatched one at a time (main.py builds the application    *)
(* without concurrent_updates), so a handler runs to completion before the *)
(* next update is looked at.                                               *)
(***************************************************************************)
EXTENDS Integers, Sequences, FiniteSets, TLC

VARIABLES
    items,          \* index pantry_items: set of documents
    categories,     \* index pantry_categories: set of documents
    cache,          \* index pantry_product_cache: set of documents
    user_data,      \* context.user_data, one dict per user (shared by all chats)
    scan_conv,      \* state of the webapp scan conversation, per (chat, user)
    category_conv,  \* state of the add-category conversation, per (chat, user)
    review_conv,    \* state of the review conversation, per (chat, user)
    batch,          \* the scan batch being processed by webapp_select_category
                    \* (lookups: history, the catalog requests it has made;
                    \* found: the hits delete_items_by_barcode has read and
                    \* not yet deleted), or the frame of another call in
                    \* progress (add_category, wait_for_cluster)
    offered,        \* callback tokens the bot has put on buttons, per chat
    last,           \* what the last handler or store call answered
    link_open       \* history: the user opened a deep-link target and no scan
                    \* flow of theirs has ended since

vars == <<items, categories, cache, user_data, scan_conv, category_conv,
          review_conv, batch, offered, last, link_open>>

-----------------------------------------------------------------------------
(* Bounds of the model *)

\* the largest document id an index hands out in a run
MaxId == 3
\* scan entries in one payload
MaxScans == 2
MaxDocs == 2
MaxLots == 51
MaxCats == 52
MaxPantry == 201

-----------------------------------------------------------------------------
(* Program constants *)

FIND_SIZE == 50
GET_ITEMS_SIZE == 200
CATEGORIES_SIZE == 50
UNVERIFIED_SIZE == 20

\* config.DEFAULT_CATEGORIES (env DEFAULT_CATEGORIES, a comma separated list)
\* the bot is run with DEFAULT_CATEGORIES=Pantry in its environment
DEFAULT_CATEGORIES == << <<"Pantry">> >>

END == "END"
SELECT_CATEGORY == "SELECT_CATEGORY"
NEW_CATEGORY_NAME == "NEW_CATEGORY_NAME"
TYPING_NAME == "TYPING_NAME"
TYPING_BARCODE == "TYPING_BARCODE"

-----------------------------------------------------------------------------
(* Chats, users, owners *)

User == 1
Group == 2
Users == {User}
Chats == {User, Group}
Sessions == {<<c, u>> : c \in Chats, u \in Users}
Owners == Chats

\* chat.type == "private": the private chat of a user has the user's id
IsPrivate(chat) == chat \in Users

_owner_id(chat, user) == IF ~IsPrivate(chat) THEN chat ELSE user

-----------------------------------------------------------------------------
(* Python values *)

None == <<>>
Some(v) == <<v>>
EmptyStr == <<"">>

\* truthiness of a str / None (segments form)
Truthy(s) == s # None /\ s # EmptyStr

Min(a, b) == IF a <= b THEN a ELSE b

Take(s, n) == SubSeq(s, 1, Min(n, Len(s)))

\* a set of documents as the sequence of a search sorted on a date field;
\* S holds <<key, document>> pairs
RECURSIVE SortAsc(_)
SortAsc(S) ==
    IF S = {} THEN <<>>
    ELSE LET half == Cardinality(S) \div 2
             \* a middle key splits the work
             m == CHOOSE d \in S :
                      /\ Cardinality({e \in S : e[1] < d[1]}) <= half
                      /\ Cardinality({e \in S : e[1] > d[1]}) <= half
             before == {e \in S : e[1] < m[1]}
         IN  SortAsc(before) \o <<m[2]>> \o SortAsc((S \ before) \ {m})

\* the same documents under "order": "desc"
SortDesc(S) ==
    LET asc == SortAsc(S)
    IN  [k \in 1..Len(asc) |-> asc[Len(asc) + 1 - k]]

Range(s) == {s[i] : i \in 1..Len(s)}

\* dict merge of a partial update into a document
Merge(doc, fields) ==
    [f \in DOMAIN doc |-> IF f \in DOMAIN fields THEN fields[f] ELSE doc[f]]

\* A new document's id and timestamp.  Ids are unique and the clock only moves
\* forward, so a new document comes after every document its index holds.  No
\* handler keeps an id or a timestamp from one update to the next, so an index
\* counts its documents from the newest one it holds.
NextId(docs) ==
    LET ids == {d.id : d \in docs}
    IN  IF ids = {} THEN 1 ELSE 1 + (CHOOSE m \in ids : \A k \in ids : k <= m)

Unknown(barcode) == "Unknown (" \o barcode \o ")"

-----------------------------------------------------------------------------
(* OpenSearchClient: pantry items *)

add_item(its, owner_id, barcode, product_name, category, quantity, verified) ==
    its \cup {[id |-> NextId(its), owner_id |-> owner_id, barcode |-> barcode,
               product_name |-> product_name, category |-> category,
               quantity |-> quantity, added_at |-> NextId(its),
               verified |-> verified]}

\* a search that leaves the owner term out
get_items_any_owner(its, owner_id, category, size) ==
    LET hits == {i \in its : Truthy(category) => i.category = category}
    IN  Take(SortDesc({<<i.added_at, i>> : i \in hits}), size)

get_items(its, owner_id, category, size) ==
    LET hits == {i \in its : /\ i.owner_id = owner_id
                             /\ (Truthy(category) => i.category = category)}
    IN  Take(SortDesc({<<i.added_at, i>> : i \in hits}), size)

get_item(its, item_id) ==
    IF \E i \in its : i.id = item_id
    THEN Some(CHOOSE i \in its : i.id = item_id)
    ELSE None

find_items_by_barcode(its, owner_id, barcode, category) ==
    LET hits == {i \in its : /\ i.owner_id = owner_id
                             /\ i.barcode = barcode
                             /\ (Truthy(category) => i.category = category)}
    IN  Take(SortAsc({<<i.added_at, i>> : i \in hits}), FIND_SIZE)

update_item(its, item_id, fields) ==
    [items |-> {IF i.id = item_id THEN Merge(i, fields) ELSE i : i \in its},
     ret   |-> \E i \in its : i.id = item_id]

\* a delete that does not look at the owner
delete_item_any_owner(its, item_id, owner_id) ==
    [items |-> {i \in its : i.id # item_id},
     ret   |-> \E i \in its : i.id = item_id]

delete_item(its, item_id, owner_id) ==
    LET item == get_item(its, item_id)
    IN  IF item # None /\ item[1].owner_id = owner_id
        THEN [items |-> {i \in its : i.id # item_id}, ret |-> TRUE]
        ELSE [items |-> its, ret |-> FALSE]

delete_items_by_barcode(its, owner_id, barcode, category, limit) ==
    LET found == find_items_by_barcode(its, owner_id, barcode, category)
        gone  == {found[k].id : k \in 1..Min(limit, Len(found))}
    IN  [items |-> {i \in its : i.id \notin gone}, ret |-> Cardinality(gone)]

\* the same search without its "collapse" clause
get_unverified_items_all_lots(its, owner_id, size) ==
    LET hits == {i \in its : i.owner_id = owner_id /\ i.verified = FALSE}
    IN  Take(SortDesc({<<i.added_at, i>> : i \in hits}), size)

get_unverified_items(its, owner_id, size) ==
    LET hits == {i \in its : i.owner_id = owner_id /\ i.verified = FALSE}
        \* collapse on barcode: the best hit of each barcode under the sort
        tops == {i \in hits : \A j \in hits :
                     j.barcode = i.barcode => j.added_at <= i.added_at}
    IN  Take(SortDesc({<<i.added_at, i>> : i \in tops}), size)

verify_items_by_barcode(its, owner_id, barcode, new_name) ==
    LET found  == find_items_by_barcode(its, owner_id, barcode, None)
        ids    == {found[k].id : k \in 1..Len(found)}
        fields == IF new_name # ""
                  THEN [verified |-> TRUE, product_name |-> new_name]
                  ELSE [verified |-> TRUE]
    IN  [items |-> {IF i.id \in ids THEN Merge(i, fields) ELSE i : i \in its},
         ret   |-> Len(found)]

-----------------------------------------------------------------------------
(* OpenSearchClient: categories *)

get_categories(cats, owner_id) ==
    LET hits == {c \in cats : c.owner_id = owner_id}
        page == Take(SortAsc({<<c.created_at, c>> : c \in hits}), CATEGORIES_SIZE)
    IN  [k \in 1..Len(page) |-> page[k].name]

NewCategory(cats, owner_id, name) ==
    [id |-> NextId(cats), owner_id |-> owner_id, name |-> name,
     created_at |-> NextId(cats)]

\* the loop of ensure_categories over names[k..], against the set read once
RECURSIVE EnsureFrom(_, _, _, _, _)
EnsureFrom(cats, owner_id, names, k, existing) ==
    IF k > Len(names) THEN cats
    ELSE IF names[k] \notin existing
         THEN EnsureFrom(cats \cup {NewCategory(cats, owner_id, names[k])},
                         owner_id, names, k + 1, existing)
         ELSE EnsureFrom(cats, owner_id, names, k + 1, existing)

ensure_categories(cats, owner_id, names) ==
    EnsureFrom(cats, owner_id, names, 1, Range(get_categories(cats, owner_id)))

add_category(cats, owner_id, name) ==
    LET existing == Range(get_categories(cats, owner_id))
    IN  IF name \in existing
        THEN [categories |-> cats, ret |-> FALSE]
        ELSE [categories |-> cats \cup {NewCategory(cats, owner_id, name)},
              ret |-> TRUE]

\* the search is unsorted: hits[0] is any of the matching documents
delete_category(cats, owner_id, name) ==
    LET hits == {c \in cats : c.owner_id = owner_id /\ c.name = name}
    IN  IF hits = {}
        THEN {[categories |-> cats, ret |-> FALSE]}
        ELSE {[categories |-> cats \ {h}, ret |-> TRUE] : h \in hits}

-----------------------------------------------------------------------------
(* OpenSearchClient: product cache *)

\* a cache that never answers
get_cached_product_miss(cch, barcode) == {None}

\* a cache that may fail to answer for a barcode it holds
get_cached_product_or_miss(cch, barcode) ==
    {None} \cup {Some(h) : h \in {p \in cch : p.barcode = barcode}}

\* the search is unsorted with size 1: any one matching document, or None
get_cached_product(cch, barcode) ==
    LET hits == {p \in cch : p.barcode = barcode}
    IN  IF hits = {} THEN {None} ELSE {Some(h) : h \in hits}

\* a cache write that never looks for the entry it should replace
cache_product_insert(cch, barcode, product_name) ==
    {cch \cup {[id |-> NextId(cch), barcode |-> barcode,
                product_name |-> product_name]}}

cache_product(cch, barcode, product_name) ==
    {IF existing # None
     THEN {p \in cch : p.id # existing[1].id}
              \cup {[id |-> existing[1].id, barcode |-> barcode,
                     product_name |-> product_name]}
     ELSE cch \cup {[id |-> NextId(cch), barcode |-> barcode,
                     product_name |-> product_name]}
     : existing \in get_cached_product(cch, barcode)}

-----------------------------------------------------------------------------
(* context.user_data *)

Keys == {"scan_scans", "scan_mode", "scan_target_chat", "_override_owner",
         "review_barcode", "_in_review_conv", "_skip_answer"}

EmptyData == [k \in Keys |-> None]

\* user_data[key] = value
SetKey(ud, user, key, value) == [ud EXCEPT ![user][key] = Some(value)]

\* user_data.pop(key, None)
PopKey(ud, user, key) == [ud EXCEPT ![user][key] = None]

\* user_data.get(key, default) / the value of user_data.pop(key, default)
GetKey(ud, user, key, default) ==
    IF ud[user][key] = None THEN default ELSE ud[user][key][1]

-----------------------------------------------------------------------------
(* Inputs *)

Barcodes == {"0001", "0002"}

\* one scan dict of a payload: its "code" key may be missing
ScanEntries == {[code |-> None]} \cup {[code |-> Some(b)] : b \in Barcodes}

\* scan.get("code", "")
CodeOf(scan) == IF scan.code = None THEN "" ELSE scan.code[1]

ScanLists == UNION {[1..n -> ScanEntries] : n \in 0..MaxScans}

Malformed == [json |-> "malformed", scans |-> None, code |-> None, mode |-> None]

\* JSON that json.loads decodes to a list, a number, a string or null
NotObject == [json |-> "not an object", scans |-> None, code |-> None,
              mode |-> None]

\* a JSON object with its optional keys
Payload(scans, code, mode) ==
    [json |-> "object", scans |-> scans, code |-> code, mode |-> mode]

\* web_app_data.data: not JSON, JSON that is no object, {}, a batch, or a
\* single (possibly blank) code
ScanPayloads(modes) ==
    {Malformed, NotObject}
        \cup {Payload(None, None, md) : md \in modes}
        \cup {Payload(Some(l), None, md) : l \in ScanLists, md \in modes}
        \cup {Payload(None, Some(b), md) : b \in Barcodes \cup {""}, md \in modes}

\* the answer of the Open Food Facts request of lookup_barcode
Failed == [kind |-> "error", status |-> 0, product_name |-> "", brands |-> ""]

NotFound == [kind |-> "json", status |-> 0, product_name |-> "", brands |-> ""]

Product(name, brands) ==
    [kind |-> "json", status |-> 1, product_name |-> name, brands |-> brands]

CatalogResponses == {Failed, NotFound, Product(" ", ""), Product("Milk", "")}

\* str.strip() on the texts the model uses
StripStr(s) == IF s = " " THEN "" ELSE s

\* /start arguments: none, "scan", "scan_<not an int>", "scan_<int>"; tail is
\* what follows the first "_" and whether int() accepts it
NoArgs == [scan |-> FALSE, tail |-> None]

DeepLink(target) == [scan |-> TRUE, tail |-> Some([int |-> TRUE, value |-> target])]

StartArgs ==
    {NoArgs,
     [scan |-> TRUE, tail |-> None],
     [scan |-> TRUE, tail |-> Some([int |-> FALSE, value |-> 0])],
     DeepLink(Group)}

-----------------------------------------------------------------------------
(* services/product_lookup.py *)

\* a lookup that hands out a product whose name is empty
lookup_barcode_keeps_empty(response) ==
    IF response.kind = "error" THEN None
    ELSE IF response.status # 1 THEN None
    ELSE Some([product_name |-> StripStr(response.product_name),
               brand |-> StripStr(response.brands)])

lookup_barcode(response) ==
    IF response.kind = "error" THEN None
    ELSE IF response.status # 1 THEN None
    ELSE LET name  == StripStr(response.product_name)
             brand == StripStr(response.brands)
         IN  IF name = "" THEN None
             ELSE Some([product_name |-> IF brand # ""
                                         THEN name \o " (" \o brand \o ")"
                                         ELSE name,
                        brand |-> brand])

-----------------------------------------------------------------------------
(* handlers/pantry.py: _ensure_owner_categories *)

_ensure_owner_categories(cats, chat, user) ==
    ensure_categories(cats, _owner_id(chat, user), DEFAULT_CATEGORIES)

\* no handler is running
Idle == batch = None

-----------------------------------------------------------------------------
(* handlers/start.py *)

start_command(chat, user, args) ==
    LET linked == IsPrivate(chat) /\ args.scan /\ args.tail # None
                      /\ args.tail[1].int
    IN  /\ Idle
        /\ categories' = _ensure_owner_categories(categories, chat, user)
        /\ user_data' =
               IF linked
               THEN SetKey(user_data, user, "scan_target_chat", args.tail[1].value)
               ELSE user_data
        /\ link_open' = IF linked THEN [link_open EXCEPT ![user] = TRUE]
                        ELSE link_open
        /\ last' = [handler |-> "start_command", reply |-> "menu"]
        /\ UNCHANGED <<items, cache, scan_conv, category_conv, review_conv,
                       batch, offered>>

-----------------------------------------------------------------------------
(* handlers/scan.py *)

\* the scans a payload carries (lines 113-116)
PayloadScans(payload) ==
    LET scans == IF payload.scans = None THEN <<>> ELSE payload.scans[1]
    IN  IF scans = <<>> /\ payload.code # None
        THEN <<[code |-> payload.code]>>
        ELSE scans

PayloadMode(payload) == IF payload.mode = None THEN "add" ELSE payload.mode[1]

\* what the summary of the scanned codes announces (line 133)
mode_label(mode) == IF mode = "add" THEN "add mode" ELSE "remove mode"

ScanButtons(chat, names) ==
    {<<chat, <<"scancat">> \o names[k]>> : k \in 1..Len(names)}
        \cup {<<chat, <<"scancat", "__cancel__">>>>}

\* the scan conversation's entry point; web_app_data comes from private chats
webapp_scan_entry(chat, user, payload) ==
    /\ Idle
    /\ IsPrivate(chat)
    /\ scan_conv[<<chat, user>>] = END
    /\ IF payload.json # "object" \/ PayloadScans(payload) = <<>>
       THEN /\ last' = [handler |-> "webapp_scan_entry",
                        reply |-> IF payload.json = "malformed"
                                  THEN "invalid data"
                                  \* payload.get of line 113 raises
                                  ELSE IF payload.json = "not an object"
                                  THEN "AttributeError"
                                  ELSE "no barcodes"]
            /\ link_open' = [link_open EXCEPT ![user] = FALSE]
            /\ UNCHANGED <<items, categories, cache, user_data, scan_conv,
                           category_conv, review_conv, batch, offered>>
       ELSE LET ens == _ensure_owner_categories(categories, chat, user)
                shown == get_categories(ens, _owner_id(chat, user))
            IN  /\ user_data' = SetKey(SetKey(user_data, user, "scan_scans",
                                              PayloadScans(payload)),
                                       user, "scan_mode", PayloadMode(payload))
                /\ categories' = ens
                /\ offered' = offered \cup ScanButtons(chat, shown)
                /\ scan_conv' = [scan_conv EXCEPT ![<<chat, user>>] = SELECT_CATEGORY]
                /\ last' = [handler |-> "webapp_scan_entry",
                            reply |-> mode_label(PayloadMode(payload))]
                /\ UNCHANGED <<items, cache, category_conv, review_conv, batch,
                               link_open>>

\* a scancat button: cancel, or the start of the batch (lines 161-182, 36)
webapp_select_category(chat, user, token) ==
    LET category == <<token[2]>>
        scans == GetKey(user_data, user, "scan_scans", <<>>)
        mode == GetKey(user_data, user, "scan_mode", "add")
        group_chat_id == user_data[user]["scan_target_chat"]
        popped == PopKey(PopKey(PopKey(user_data, user, "scan_scans"),
                                user, "scan_mode"), user, "scan_target_chat")
        overridden == IF group_chat_id # None /\ group_chat_id[1] # 0
                      THEN SetKey(popped, user, "_override_owner", group_chat_id[1])
                      ELSE popped
        override == GetKey(overridden, user, "_override_owner", 0)
    IN  /\ Idle
        /\ scan_conv[<<chat, user>>] = SELECT_CATEGORY
        /\ <<chat, token>> \in offered
        /\ token[1] = "scancat"
        /\ IF category = <<"__cancel__">>
           THEN /\ user_data' = PopKey(PopKey(user_data, user, "scan_scans"),
                                       user, "scan_mode")
                /\ scan_conv' = [scan_conv EXCEPT ![<<chat, user>>] = END]
                /\ last' = [handler |-> "webapp_select_category",
                            reply |-> "cancelled"]
                /\ link_open' = [link_open EXCEPT ![user] = FALSE]
                /\ UNCHANGED batch
           ELSE /\ mode # "remove" => NextId(items) + Len(scans) <= MaxId + 1
                /\ user_data' = overridden
                /\ batch' = Some([chat |-> chat, user |-> user,
                                  scans |-> scans, mode |-> mode,
                                  category |-> category,
                                  group_chat_id |-> group_chat_id,
                                  owner |-> IF override # 0 THEN override
                                            ELSE _owner_id(chat, user),
                                  lines |-> <<>>,
                                  lookups |-> 0,
                                  found |-> None])
                /\ UNCHANGED <<scan_conv, last, link_open>>
        /\ UNCHANGED <<items, categories, cache, category_conv, review_conv,
                       offered>>

\* the batch with its first scan done and a line added to the summary
Advance(b, mark, text) ==
    Some([b EXCEPT !.scans = Tail(@),
                   !.lines = Append(@, [mark |-> mark, text |-> text])])

\* one pass of the remove loop of _process_scan_batch (lines 41-47)
process_remove_scan ==
    /\ batch # None
    /\ batch[1].scans # <<>>
    /\ batch[1].mode = "remove"
    /\ batch[1].found = None
    /\ LET b == batch[1]
           barcode == CodeOf(Head(b.scans))
           del == delete_items_by_barcode(items, b.owner, barcode, b.category, 1)
       IN  /\ items' = del.items
           /\ batch' = Advance(b, IF del.ret # 0 THEN "removed" ELSE "not found",
                               barcode)
    /\ UNCHANGED <<categories, cache, user_data, scan_conv, category_conv,
                   review_conv, offered, last, link_open>>

\* the same pass as the two requests it sends to the store, for a store that
\* has other clients: first the search of delete_items_by_barcode (line 227)
remove_find ==
    /\ batch # None
    /\ batch[1].scans # <<>>
    /\ batch[1].mode = "remove"
    /\ batch[1].found = None
    /\ LET b == batch[1]
           found == find_items_by_barcode(items, b.owner,
                                          CodeOf(Head(b.scans)), b.category)
       IN  batch' = Some([b EXCEPT !.found =
                              Some([k \in 1..Min(1, Len(found)) |-> found[k].id])])
    /\ UNCHANGED <<items, categories, cache, user_data, scan_conv,
                   category_conv, review_conv, offered, last, link_open>>

\* then the delete of each hit by id (lines 229-231).  client.delete of an id
\* that is gone raises NotFoundError, which nothing catches before it leaves
\* webapp_select_category: its finally clause runs (line 186), no summary is
\* sent and the conversation keeps its state.
remove_delete ==
    /\ batch # None
    /\ batch[1].found # None
    /\ LET b == batch[1]
           ids == b.found[1]
           barcode == CodeOf(Head(b.scans))
           done == [b EXCEPT !.found = None]
       IN  IF ids = <<>>
           THEN /\ batch' = Advance(done, "not found", barcode)
                /\ UNCHANGED <<items, user_data, last, link_open>>
           ELSE IF \E i \in items : i.id = ids[1]
           THEN /\ items' = {i \in items : i.id # ids[1]}
                /\ batch' = Advance(done, "removed", barcode)
                /\ UNCHANGED <<user_data, last, link_open>>
           ELSE /\ batch' = None
                /\ user_data' = PopKey(user_data, b.user, "_override_owner")
                /\ last' = [handler |-> "webapp_select_category",
                            reply |-> "NotFoundError"]
                /\ link_open' = [link_open EXCEPT ![b.user] = FALSE]
                /\ UNCHANGED items
    /\ UNCHANGED <<categories, cache, scan_conv, category_conv, review_conv,
                   offered>>

\* one pass of the add loop of _process_scan_batch (lines 51-93); response is
\* what the catalog answers if it is asked
process_add_scan(response) ==
    /\ batch # None
    /\ batch[1].scans # <<>>
    /\ batch[1].mode # "remove"
    /\ LET b == batch[1]
           barcode == CodeOf(Head(b.scans))
       IN  IF barcode = ""
           THEN /\ batch' = Some([b EXCEPT !.scans = Tail(@)])
                /\ UNCHANGED <<items, cache>>
           ELSE \E cached \in get_cached_product(cache, barcode) :
                    IF cached # None
                    THEN /\ items' = add_item(items, b.owner, barcode,
                                              cached[1].product_name, b.category,
                                              1, TRUE)
                         /\ batch' = Advance(b, "verified", cached[1].product_name)
                         /\ UNCHANGED cache
                    ELSE LET result == lookup_barcode(response)
                             asked  == [b EXCEPT !.lookups = @ + 1]
                         IN  IF result # None
                             THEN /\ cache' \in cache_product(cache, barcode,
                                                     result[1].product_name)
                                  /\ items' = add_item(items, b.owner, barcode,
                                                 result[1].product_name,
                                                 b.category, 1, FALSE)
                                  /\ batch' = Advance(asked, "needs review",
                                                      result[1].product_name)
                             ELSE /\ items' = add_item(items, b.owner, barcode,
                                                 Unknown(barcode), b.category,
                                                 1, FALSE)
                                  /\ batch' = Advance(asked, "needs review",
                                                      Unknown(barcode))
                                  /\ UNCHANGED cache
    /\ UNCHANGED <<categories, user_data, scan_conv, category_conv, review_conv,
                   offered, last, link_open>>

\* the end of webapp_select_category (lines 185-214)
finish_select_category ==
    /\ batch # None
    /\ batch[1].scans = <<>>
    /\ LET b == batch[1]
       IN  /\ user_data' = PopKey(user_data, b.user, "_override_owner")
           /\ scan_conv' = [scan_conv EXCEPT ![<<b.chat, b.user>>] = END]
           /\ last' = [handler |-> "webapp_select_category",
                       reply |-> IF b.mode = "add" THEN "Added to"
                                 ELSE "Removed from"]
           /\ link_open' = [link_open EXCEPT ![b.user] = FALSE]
    /\ batch' = None
    /\ UNCHANGED <<items, categories, cache, category_conv, review_conv, offered>>

\* a /cancel that ends the flow and leaves the session as it is
webapp_cancel_keeps_batch(chat, user) ==
    /\ Idle
    /\ scan_conv[<<chat, user>>] = SELECT_CATEGORY
    /\ scan_conv' = [scan_conv EXCEPT ![<<chat, user>>] = END]
    /\ last' = [handler |-> "webapp_cancel", reply |-> "cancelled"]
    /\ link_open' = [link_open EXCEPT ![user] = FALSE]
    /\ UNCHANGED <<items, categories, cache, user_data, category_conv,
                   review_conv, batch, offered>>

\* /cancel while the scan conversation waits for the category
webapp_cancel(chat, user) ==
    /\ Idle
    /\ scan_conv[<<chat, user>>] = SELECT_CATEGORY
    /\ user_data' = PopKey(PopKey(PopKey(user_data, user, "scan_scans"),
                                  user, "scan_mode"), user, "scan_target_chat")
    /\ scan_conv' = [scan_conv EXCEPT ![<<chat, user>>] = END]
    /\ last' = [handler |-> "webapp_cancel", reply |-> "cancelled"]
    /\ link_open' = [link_open EXCEPT ![user] = FALSE]
    /\ UNCHANGED <<items, categories, cache, category_conv, review_conv,
                   batch, offered>>

-----------------------------------------------------------------------------
(* handlers/categories.py *)

\* update.message.text.strip() on the texts the model uses
StripText(text) == IF text = <<" ">> THEN EmptyStr ELSE text

CategoryButtons(chat, names) ==
    {<<chat, <<"catdel">> \o names[k]>> : k \in 1..Len(names)}
        \cup {<<chat, <<"catadd">>>>}

categories_command(chat, user) ==
    LET ens == _ensure_owner_categories(categories, chat, user)
    IN  /\ Idle
        /\ categories' = ens
        /\ offered' = offered \cup
               CategoryButtons(chat, get_categories(ens, _owner_id(chat, user)))
        /\ last' = [handler |-> "categories_command", reply |-> "Categories"]
        /\ UNCHANGED <<items, cache, user_data, scan_conv, category_conv,
                       review_conv, batch, link_open>>

\* a catdel button; the category is everything after the first ":"
category_delete_cb(chat, user, token) ==
    LET category == Tail(token)
        owner == _owner_id(chat, user)
    IN  /\ Idle
        /\ <<chat, token>> \in offered
        /\ token[1] = "catdel"
        /\ IF get_items(items, owner, category, GET_ITEMS_SIZE) # <<>>
           THEN /\ last' = [handler |-> "category_delete_cb",
                            reply |-> "still has items"]
                /\ UNCHANGED categories
           ELSE \E del \in delete_category(categories, owner, category) :
                    /\ categories' = del.categories
                    /\ last' = [handler |-> "category_delete_cb",
                                reply |-> IF del.ret THEN "deleted"
                                          ELSE "not found"]
        /\ UNCHANGED <<items, cache, user_data, scan_conv, category_conv,
                       review_conv, batch, offered, link_open>>

\* the catadd button, entry point of the add-category conversation
add_category_entry(chat, user) ==
    /\ Idle
    /\ <<chat, <<"catadd">>>> \in offered
    /\ category_conv[<<chat, user>>] = END
    /\ category_conv' = [category_conv EXCEPT ![<<chat, user>>] = NEW_CATEGORY_NAME]
    /\ last' = [handler |-> "add_category_entry", reply |-> "New Category"]
    /\ UNCHANGED <<items, categories, cache, user_data, scan_conv, review_conv,
                   batch, offered, link_open>>

\* a text message while the add-category conversation waits for the name
received_category_name(chat, user, text) ==
    LET name == StripText(text)
        add == add_category(categories, _owner_id(chat, user), name)
    IN  /\ Idle
        /\ category_conv[<<chat, user>>] = NEW_CATEGORY_NAME
        /\ IF name = EmptyStr
           THEN /\ last' = [handler |-> "received_category_name",
                            reply |-> "cannot be empty"]
                /\ UNCHANGED <<categories, category_conv>>
           ELSE /\ categories' = add.categories
                /\ category_conv' = [category_conv EXCEPT ![<<chat, user>>] = END]
                /\ last' = [handler |-> "received_category_name",
                            reply |-> IF add.ret THEN "created"
                                      ELSE "already exists"]
        /\ UNCHANGED <<items, cache, user_data, scan_conv, review_conv, batch,
                       offered, link_open>>

\* /cancel reaches the add-category conversation when the scan one is idle
cancel_conversation(chat, user) ==
    /\ Idle
    /\ scan_conv[<<chat, user>>] = END
    /\ category_conv[<<chat, user>>] = NEW_CATEGORY_NAME
    /\ category_conv' = [category_conv EXCEPT ![<<chat, user>>] = END]
    /\ last' = [handler |-> "cancel_conversation", reply |-> "cancelled"]
    /\ UNCHANGED <<items, categories, cache, user_data, scan_conv, review_conv,
                   batch, offered, link_open>>

-----------------------------------------------------------------------------
(* handlers/pantry.py *)

PantryButtons(chat, names) ==
    {<<chat, <<"pantry", "cat">> \o names[k]>> : k \in 1..Len(names)}

\* /pantry, the Pantry menu button and the "Back to Pantry" button
pantry_command(chat, user) ==
    LET ens == _ensure_owner_categories(categories, chat, user)
        names == get_categories(ens, _owner_id(chat, user))
    IN  /\ Idle
        /\ categories' = ens
        /\ offered' = offered \cup PantryButtons(chat, names)
        /\ last' = [handler |-> "pantry_command",
                    reply |-> IF names = <<>> THEN "no categories"
                              ELSE "Your Pantry"]
        /\ UNCHANGED <<items, cache, user_data, scan_conv, category_conv,
                       review_conv, batch, link_open>>

\* grouped[bc]["quantity"] after the loop over the listed items
Quantity(listed, bc) ==
    Cardinality(UNION {{<<k, q>> : q \in 1..listed[k].quantity} :
                           k \in {l \in 1..Len(listed) : listed[l].barcode = bc}})

\* the grouped dict as the sequence of its values: a group is created by the
\* first listed item of its barcode and keeps that item's name, flag and id
Grouped(listed) ==
    LET first(bc) == CHOOSE k \in 1..Len(listed) :
                         /\ listed[k].barcode = bc
                         /\ \A l \in 1..(k - 1) : listed[l].barcode # bc
        group(bc) == [barcode      |-> bc,
                      product_name |-> listed[first(bc)].product_name,
                      quantity     |-> Quantity(listed, bc),
                      verified     |-> listed[first(bc)].verified,
                      oldest_id    |-> listed[first(bc)].id]
    IN  SortAsc({<<first(bc), group(bc)>> :
                     bc \in {listed[k].barcode : k \in 1..Len(listed)}})

\* the per-unit buttons under the lines of a category view
UnitButtons(chat, groups, category) ==
    UNION {{<<chat, <<"pantry", "add", groups[k].barcode>> \o category>>,
            <<chat, <<"pantry", "del", groups[k].barcode>> \o category>>} :
               k \in 1..Len(groups)}

\* the message pantry_category_cb edits in for a category (lines 85-139)
CategoryView(its, chat, user, category) ==
    LET listed == get_items(its, _owner_id(chat, user), category, GET_ITEMS_SIZE)
        groups == Grouped(listed)
    IN  [reply   |-> IF listed = <<>> THEN "is empty" ELSE "products",
         category |-> category,
         view    |-> [k \in 1..Len(groups) |->
                         [name     |-> IF groups[k].product_name = ""
                                       THEN groups[k].barcode
                                       ELSE groups[k].product_name,
                          barcode  |-> groups[k].barcode,
                          quantity |-> groups[k].quantity,
                          verified |-> groups[k].verified,
                          oldest_id |-> groups[k].oldest_id]],
         buttons |-> UnitButtons(chat, groups, category)]

\* a pantry:cat button; the category is everything after the second ":"
pantry_category_cb(chat, user, token) ==
    /\ Idle
    /\ <<chat, token>> \in offered
    /\ token[1] = "pantry" /\ token[2] = "cat"
    /\ user_data' = PopKey(user_data, user, "_skip_answer")
    /\ \E shown \in {CategoryView(items, chat, user, Tail(Tail(token)))} :
           /\ offered' = offered \cup shown.buttons
           /\ last' = [handler |-> "pantry_category_cb", reply |-> shown.reply,
                       category |-> shown.category, view |-> shown.view]
    /\ UNCHANGED <<items, categories, cache, scan_conv, category_conv,
                   review_conv, batch, link_open>>

\* a pantry:del button: one unit less, then the category view again; the
\* "_skip_answer" mark it sets is popped by the view before it returns
pantry_delete_cb(chat, user, token) ==
    LET barcode == token[3]
        category == IF Len(token) > 3 THEN SubSeq(token, 4, Len(token)) ELSE None
        del == delete_items_by_barcode(items, _owner_id(chat, user), barcode,
                                       category, 1)
        shown_category == IF Truthy(category) THEN category ELSE EmptyStr
    IN  /\ Idle
        /\ <<chat, token>> \in offered
        /\ token[1] = "pantry" /\ token[2] = "del"
        /\ items' = del.items
        /\ user_data' = PopKey(user_data, user, "_skip_answer")
        /\ \E shown \in {CategoryView(del.items, chat, user, shown_category)} :
               /\ offered' = offered \cup shown.buttons
               /\ last' = [handler |-> "pantry_delete_cb",
                           reply |-> IF del.ret # 0 THEN "removed one unit"
                                     ELSE "item not found",
                           category |-> shown.category, view |-> shown.view]
        /\ UNCHANGED <<categories, cache, scan_conv, category_conv,
                       review_conv, batch, link_open>>

\* a pantry:add button: one more lot with the name and flag of the oldest
\* lot of the barcode in the category, then the category view again
pantry_add_cb(chat, user, token) ==
    LET barcode == token[3]
        category == IF Len(token) > 3 THEN SubSeq(token, 4, Len(token))
                    ELSE <<"Pantry">>
        owner == _owner_id(chat, user)
        existing == find_items_by_barcode(items, owner, barcode, category)
        product_name == IF existing # <<>> THEN existing[1].product_name
                        ELSE Unknown(barcode)
        verified == IF existing # <<>> THEN existing[1].verified ELSE FALSE
        added == add_item(items, owner, barcode, product_name, category, 1,
                          verified)
    IN  /\ Idle
        /\ <<chat, token>> \in offered
        /\ token[1] = "pantry" /\ token[2] = "add"
        /\ items' = added
        /\ user_data' = PopKey(user_data, user, "_skip_answer")
        /\ \E shown \in {CategoryView(added, chat, user, category)} :
               /\ offered' = offered \cup shown.buttons
               /\ last' = [handler |-> "pantry_add_cb",
                           reply |-> "added one unit",
                           category |-> shown.category, view |-> shown.view]
        /\ UNCHANGED <<categories, cache, scan_conv, category_conv,
                       review_conv, batch, link_open>>

-----------------------------------------------------------------------------
(* handlers/review.py *)

ReviewButtons(chat, barcode) ==
    {<<chat, <<"rev", action, barcode>>>> :
         action \in {"ok", "rename", "fixcode", "remove"}}
        \cup {<<chat, <<"rev", "skip">>>>, <<chat, <<"rev", "done">>>>}

\* the body of review_command against the pantry its, run for handler
ShowNext(chat, user, its, handler) ==
    LET unverified == get_unverified_items(its, _owner_id(chat, user),
                                           UNVERIFIED_SIZE)
    IN  IF unverified = <<>>
        THEN /\ last' = [handler |-> handler, reply |-> "nothing to verify"]
             /\ UNCHANGED <<user_data, offered>>
        ELSE /\ user_data' = SetKey(user_data, user, "review_barcode",
                                    unverified[1].barcode)
             /\ offered' = offered \cup ReviewButtons(chat, unverified[1].barcode)
             /\ last' = [handler |-> handler, reply |-> "review"]

review_command(chat, user) ==
    /\ Idle
    /\ ShowNext(chat, user, items, "review_command")
    /\ UNCHANGED <<items, categories, cache, scan_conv, category_conv,
                   review_conv, batch, link_open>>

\* a rev button.  rename and fixcode enter the review conversation when it is
\* idle; every other press reaches the handler registered after the
\* conversations, whose return value is dropped.
review_action_cb(chat, user, token) ==
    LET action  == token[2]
        barcode == IF Len(token) > 2 THEN token[3] ELSE ""
        owner   == _owner_id(chat, user)
        entered == review_conv[<<chat, user>>] = END
    IN  /\ Idle
        /\ <<chat, token>> \in offered
        /\ token[1] = "rev"
        /\ CASE action = "done" ->
                 /\ last' = [handler |-> "review_action_cb", reply |-> "done"]
                 /\ UNCHANGED <<items, user_data, offered, review_conv>>
             [] action = "skip" ->
                 /\ ShowNext(chat, user, items, "review_action_cb")
                 /\ UNCHANGED <<items, review_conv>>
             [] action = "ok" ->
                 /\ items' = verify_items_by_barcode(items, owner, barcode, "").items
                 /\ ShowNext(chat, user, items', "review_action_cb")
                 /\ UNCHANGED review_conv
             [] action = "remove" ->
                 LET found == find_items_by_barcode(items, owner, barcode, None)
                 IN  /\ items' = {i \in items : i \notin Range(found)}
                     /\ ShowNext(chat, user, items', "review_action_cb")
                     /\ UNCHANGED review_conv
             [] action \in {"rename", "fixcode"} ->
                 /\ user_data' = SetKey(SetKey(user_data, user, "review_barcode",
                                               barcode),
                                        user, "_in_review_conv", TRUE)
                 /\ last' = [handler |-> "review_action_cb", reply |-> action]
                 /\ review_conv' =
                        IF entered
                        THEN [review_conv EXCEPT ![<<chat, user>>] =
                                  IF action = "rename" THEN TYPING_NAME
                                  ELSE TYPING_BARCODE]
                        ELSE review_conv
                 /\ UNCHANGED <<items, offered>>
        /\ UNCHANGED <<categories, cache, scan_conv, category_conv, batch,
                       link_open>>

\* a text message while the review conversation waits for the name
review_received_name(chat, user, text) ==
    LET new_name == StripStr(text)
        barcode  == GetKey(user_data, user, "review_barcode", "")
        ver      == verify_items_by_barcode(items, _owner_id(chat, user),
                                            barcode, new_name)
    IN  /\ Idle
        /\ category_conv[<<chat, user>>] = END
        /\ review_conv[<<chat, user>>] = TYPING_NAME
        /\ user_data' = PopKey(PopKey(user_data, user, "review_barcode"),
                               user, "_in_review_conv")
        /\ review_conv' = [review_conv EXCEPT ![<<chat, user>>] = END]
        /\ IF new_name = "" \/ barcode = ""
           THEN /\ last' = [handler |-> "review_received_name",
                            reply |-> "cancelled"]
                /\ UNCHANGED <<items, cache>>
           ELSE /\ items' = ver.items
                /\ cache' \in cache_product(cache, barcode, new_name)
                /\ last' = [handler |-> "review_received_name",
                            reply |-> "renamed"]
        /\ UNCHANGED <<categories, scan_conv, category_conv, batch, offered,
                       link_open>>

\* a loop that also marks the found items as verified
update_found_verifies(its, found, fields) ==
    LET ids == {found[k].id : k \in 1..Len(found)}
    IN  {IF i.id \in ids THEN [Merge(i, fields) EXCEPT !.verified = TRUE]
         ELSE i : i \in its}

\* a loop that also sends the found items back to review
update_found_unverifies(its, found, fields) ==
    LET ids == {found[k].id : k \in 1..Len(found)}
    IN  {IF i.id \in ids THEN [Merge(i, fields) EXCEPT !.verified = FALSE]
         ELSE i : i \in its}

\* the loop that writes fields to each of the found items (lines 187-192)
update_found(its, found, fields) ==
    LET ids == {found[k].id : k \in 1..Len(found)}
    IN  {IF i.id \in ids THEN Merge(i, fields) ELSE i : i \in its}

\* a text message while the review conversation waits for the barcode
review_received_barcode(chat, user, text) ==
    LET new_barcode == StripStr(text)
        old_barcode == GetKey(user_data, user, "review_barcode", "")
        found       == find_items_by_barcode(items, _owner_id(chat, user),
                                             old_barcode, None)
    IN  /\ Idle
        /\ category_conv[<<chat, user>>] = END
        /\ review_conv[<<chat, user>>] = TYPING_BARCODE
        /\ user_data' = PopKey(PopKey(user_data, user, "review_barcode"),
                               user, "_in_review_conv")
        /\ review_conv' = [review_conv EXCEPT ![<<chat, user>>] = END]
        /\ IF new_barcode = "" \/ old_barcode = ""
           THEN /\ last' = [handler |-> "review_received_barcode",
                            reply |-> "cancelled"]
                /\ UNCHANGED items
           ELSE IF found = <<>>
           THEN /\ last' = [handler |-> "review_received_barcode",
                            reply |-> "no items"]
                /\ UNCHANGED items
           ELSE \E cached \in get_cached_product(cache, new_barcode) :
                    LET fields ==
                            IF cached # None /\ cached[1].product_name # ""
                            THEN [barcode |-> new_barcode,
                                  product_name |-> cached[1].product_name]
                            ELSE [barcode |-> new_barcode]
                    IN  /\ items' = update_found(items, found, fields)
                        /\ last' = [handler |-> "review_received_barcode",
                                    reply |-> "updated"]
        /\ UNCHANGED <<categories, cache, scan_conv, category_conv, batch,
                       offered, link_open>>

\* /cancel reaches the review conversation when the two before it are idle
review_cancel(chat, user) ==
    /\ Idle
    /\ scan_conv[<<chat, user>>] = END
    /\ category_conv[<<chat, user>>] = END
    /\ review_conv[<<chat, user>>] # END
    /\ user_data' = PopKey(PopKey(user_data, user, "review_barcode"),
                           user, "_in_review_conv")
    /\ review_conv' = [review_conv EXCEPT ![<<chat, user>>] = END]
    /\ last' = [handler |-> "review_cancel", reply |-> "cancelled"]
    /\ UNCHANGED <<items, categories, cache, scan_conv, category_conv, batch,
                   offered, link_open>>

-----------------------------------------------------------------------------
(* The bot after main(): empty indices, no session *)

Init ==
    /\ items = {}
    /\ categories = {}
    /\ cache = {}
    /\ user_data = [u \in Users |-> EmptyData]
    /\ scan_conv = [s \in Sessions |-> END]
    /\ category_conv = [s \in Sessions |-> END]
    /\ review_conv = [s \in Sessions |-> END]
    /\ batch = None
    /\ offered = {}
    /\ last = [handler |-> "main", reply |-> ""]
    /\ link_open = [u \in Users |-> FALSE]

-----------------------------------------------------------------------------
(* The scan flow of one user in their private chat *)

ScanSend == \E p \in ScanPayloads({None, Some("add"), Some("remove")}) :
                webapp_scan_entry(User, User, p)

ScanSelect == \E o \in offered : webapp_select_category(User, User, o[2])

ScanAdd == \E r \in CatalogResponses : process_add_scan(r)

ScanCancel == webapp_cancel(User, User)

Next ==
    \/ ScanSend
    \/ ScanSelect
    \/ process_remove_scan
    \/ ScanAdd
    \/ finish_select_category
    \/ ScanCancel

Spec == Init /\ [][Next]_vars

-----------------------------------------------------------------------------
(* Scanning in add mode *)

\* what one pass of the add loop has to do to the pantry and the cache
AddScanContract(response) ==
    LET b       == batch[1]
        barcode == CodeOf(Head(b.scans))
        cached  == \E p \in cache : p.barcode = barcode
        fresh   == items' \ items
    IN  IF barcode = ""
        THEN items' = items /\ cache' = cache
        ELSE /\ items \subseteq items'
             /\ Cardinality(fresh) = 1
             /\ \A d \in fresh :
                    /\ d.owner_id = b.owner
                    /\ d.barcode = barcode
                    /\ d.category = b.category
                    /\ d.quantity = 1
                    /\ d.verified = cached
             /\ (~cached /\ lookup_barcode(response) # None) =>
                    /\ \E p \in cache' : p.barcode = barcode
                    /\ \A p \in cache' : p.barcode = barcode =>
                           p.product_name = lookup_barcode(response)[1].product_name

\* C2: in add mode every scanned non-empty barcode inserts exactly one new
\* item with quantity 1 into the chosen category of the owner, verified
\* exactly when the barcode was in the product cache before that scan; a
\* blank or missing barcode inserts nothing; after a successful catalog
\* lookup of an uncached barcode the cache holds it with the catalog's name.
C2_AddInsertsOneItem ==
    [][\A r \in CatalogResponses : process_add_scan(r) => AddScanContract(r)]_vars

\* one batch has added a cached barcode and one the catalog had to be asked for
C2_Witness ==
    /\ batch # None
    /\ batch[1].mode = "add"
    /\ batch[1].scans = <<>>
    /\ \E j, k \in 1..Len(batch[1].lines) :
           /\ batch[1].lines[j].mark = "verified"
           /\ batch[1].lines[k].mark = "needs review"
    /\ \E i \in items : i.verified
    /\ \E i \in items : ~i.verified

-----------------------------------------------------------------------------
(* Scanning into categories the user has named *)

\* category names typed by the user: blank and ":Tins"
NameTexts == {<<" ">>, <<"", "Tins">>}

NamesSend == \E md \in {"add", "remove"} :
                 webapp_scan_entry(User, User, Payload(None, Some("0001"), Some(md)))

NamesAdd == process_add_scan(Failed)

NamesTyped == \E t \in NameTexts : received_category_name(User, User, t)

NextNames ==
    \/ categories_command(User, User)
    \/ add_category_entry(User, User)
    \/ NamesTyped
    \/ cancel_conversation(User, User)
    \/ NamesSend
    \/ ScanSelect
    \/ process_remove_scan
    \/ NamesAdd
    \/ finish_select_category
    \/ ScanCancel

SpecNames == Init /\ [][NextNames]_vars

-----------------------------------------------------------------------------
(* Scanning in remove mode *)

\* what one pass of the remove loop has to do to the pantry and the summary
RemoveScanContract ==
    LET b       == batch[1]
        barcode == CodeOf(Head(b.scans))
        matches == {i \in items : /\ i.owner_id = b.owner
                                   /\ i.barcode = barcode
                                   /\ i.category = b.category}
        gone    == items \ items'
    IN  /\ items' \subseteq items
        /\ Cardinality(gone) <= 1
        /\ \A d \in gone : /\ d \in matches
                            /\ \A i \in matches : d.added_at <= i.added_at
        /\ batch' # None
        /\ batch'[1].scans = Tail(b.scans)
        /\ Len(batch'[1].lines) = Len(b.lines) + 1
        /\ matches = {} =>
               /\ items' = items
               /\ batch'[1].lines[Len(b.lines) + 1].mark = "not found"

\* C3: in remove mode each scanned barcode deletes at most one item, the
\* deleted item matches (owner, barcode, target category) and is the oldest
\* of the matches; a barcode without a match is reported as not found and the
\* batch goes on, one summary line per scan.
C3_RemoveDeletesOldestMatch ==
    [][process_remove_scan => RemoveScanContract]_vars

-----------------------------------------------------------------------------
(* Reviewing what was scanned in the private chat while the catalog was down *)

\* the pantry after the barcodes of q were scanned into Pantry in add mode
RECURSIVE Scanned(_)
Scanned(q) ==
    IF q = <<>> THEN {}
    ELSE add_item(Scanned(SubSeq(q, 1, Len(q) - 1)), User, q[Len(q)],
                  Unknown(q[Len(q)]), <<"Pantry">>, 1, FALSE)

InitReview ==
    /\ items \in {Scanned(q) : q \in UNION {[1..n -> Barcodes] : n \in 1..MaxId}}
    /\ categories = _ensure_owner_categories({}, User, User)
    /\ cache = {}
    /\ user_data = [u \in Users |-> EmptyData]
    /\ scan_conv = [s \in Sessions |-> END]
    /\ category_conv = [s \in Sessions |-> END]
    /\ review_conv = [s \in Sessions |-> END]
    /\ batch = None
    /\ offered = ScanButtons(User, <<<<"Pantry">>>>)
    /\ last = [handler |-> "webapp_select_category", reply |-> "Added to"]
    /\ link_open = [u \in Users |-> FALSE]

\* texts typed in the review conversation
NameTyped == {" ", "Tea"}

BarcodeTyped == {" ", "0002"}

ReviewPress == \E o \in offered : review_action_cb(User, User, o[2])

ReviewName == \E t \in NameTyped : review_received_name(User, User, t)

ReviewBarcode == \E t \in BarcodeTyped : review_received_barcode(User, User, t)

NextReview ==
    \/ review_command(User, User)
    \/ ReviewPress
    \/ ReviewName
    \/ ReviewBarcode
    \/ review_cancel(User, User)

SpecReview == InitReview /\ [][NextReview]_vars

\* the distinct barcodes the owner still has to review
UnverifiedBarcodes(owner) ==
    {i.barcode : i \in {j \in items : j.owner_id = owner /\ ~j.verified}}

\* C6: review action skip changes no item, category or cache entry, and when
\* the owner has at least two distinct unverified barcodes the product
\* presented after skip is another unverified product than the one skipped.
C6_SkipPresentsAnother ==
    [][review_action_cb(User, User, <<"rev", "skip">>) =>
           /\ UNCHANGED <<items, categories, cache>>
           /\ (/\ Cardinality(UnverifiedBarcodes(User)) >= 2
               /\ user_data[User]["review_barcode"] # None) =>
                  /\ user_data'[User]["review_barcode"] # None
                  /\ user_data'[User]["review_barcode"][1]
                         \in UnverifiedBarcodes(User)
                  /\ user_data'[User]["review_barcode"]
                         # user_data[User]["review_barcode"]]_vars

-----------------------------------------------------------------------------
(* Scanning for a group through a deep link *)

DeepStart == \E a \in StartArgs : start_command(User, User, a)

GroupStart == start_command(Group, User, NoArgs)

DeepSend == \E p \in {Malformed, Payload(None, Some("0001"), Some("add"))} :
                webapp_scan_entry(User, User, p)

NextDeepLink ==
    \/ DeepStart
    \/ GroupStart
    \/ DeepSend
    \/ ScanSelect
    \/ NamesAdd
    \/ finish_select_category
    \/ ScanCancel

SpecDeepLink == Init /\ [][NextDeepLink]_vars

\* C4: a deep-link group target applies to the one scan batch it was set
\* for: once that scan flow has ended (category chosen, cancel button,
\* /cancel, rejected payload) no batch of the user is attributed to the group
\* unless a new deep link was opened, and _override_owner is absent outside
\* the processing of a batch.
C4_DeepLinkOneBatch ==
    /\ batch # None =>
           (batch[1].owner # _owner_id(batch[1].chat, batch[1].user)
                => link_open[batch[1].user])
    /\ Idle => \A u \in Users : user_data[u]["_override_owner"] = None

\* a flow of session s reaches a terminal transition in this step
ScanTerminal(s) == scan_conv[s] = SELECT_CATEGORY /\ scan_conv'[s] = END

ReviewTerminal(s) ==
    \/ review_conv[s] # END /\ review_conv'[s] = END
    \/ review_action_cb(s[1], s[2], <<"rev", "done">>)

\* C5: whenever a flow reaches a terminal transition (scan category chosen,
\* scan cancelled by button or /cancel, review name or barcode received,
\* review cancelled, review done) its scratch state is cleared: pending scan
\* batch and mode, deep-link target, review cursor barcode, sub-flow flag.
C5_ScratchCleared ==
    [][\A s \in Sessions :
           /\ ScanTerminal(s) =>
                  /\ user_data'[s[2]]["scan_scans"] = None
                  /\ user_data'[s[2]]["scan_mode"] = None
                  /\ user_data'[s[2]]["scan_target_chat"] = None
           /\ ReviewTerminal(s) =>
                  /\ user_data'[s[2]]["review_barcode"] = None
                  /\ user_data'[s[2]]["_in_review_conv"] = None]_vars

\* C9: every item in the store references a category that exists for the
\* owner the item is stored under.
C9_ItemsReferenceCategories ==
    \A i \in items :
        \E c \in categories : c.owner_id = i.owner_id /\ c.name = i.category

-----------------------------------------------------------------------------
(* The store called directly, for two owners *)

StoreCategories == {<<"Pantry">>, <<"Fridge">>}

\* the fields a caller merges into an item
UpdateFields == {[barcode |-> b] : b \in Barcodes}

AddItem(owner, barcode, product_name, category, verified) ==
    /\ items' = add_item(items, owner, barcode, product_name, category, 1, verified)
    /\ UNCHANGED <<categories, cache, user_data, scan_conv, category_conv,
                   review_conv, batch, offered, last, link_open>>

UpdateItem(item_id, fields) ==
    /\ items' = update_item(items, item_id, fields).items
    /\ UNCHANGED <<categories, cache, user_data, scan_conv, category_conv,
                   review_conv, batch, offered, last, link_open>>

DeleteItem(item_id, owner) ==
    /\ items' = delete_item(items, item_id, owner).items
    /\ UNCHANGED <<categories, cache, user_data, scan_conv, category_conv,
                   review_conv, batch, offered, last, link_open>>

DeleteItemsByBarcode(owner, barcode, category, limit) ==
    /\ items' = delete_items_by_barcode(items, owner, barcode, category, limit).items
    /\ UNCHANGED <<categories, cache, user_data, scan_conv, category_conv,
                   review_conv, batch, offered, last, link_open>>

VerifyItemsByBarcode(owner, barcode, new_name) ==
    /\ items' = verify_items_by_barcode(items, owner, barcode, new_name).items
    /\ UNCHANGED <<categories, cache, user_data, scan_conv, category_conv,
                   review_conv, batch, offered, last, link_open>>

AddCategory(owner, name) ==
    /\ categories' = add_category(categories, owner, name).categories
    /\ UNCHANGED <<items, cache, user_data, scan_conv, category_conv,
                   review_conv, batch, offered, last, link_open>>

EnsureCategories(owner, names) ==
    /\ categories' = ensure_categories(categories, owner, names)
    /\ UNCHANGED <<items, cache, user_data, scan_conv, category_conv,
                   review_conv, batch, offered, last, link_open>>

DeleteCategory(owner, name) ==
    /\ \E del \in delete_category(categories, owner, name) :
           categories' = del.categories
    /\ UNCHANGED <<items, cache, user_data, scan_conv, category_conv,
                   review_conv, batch, offered, last, link_open>>

NextStore ==
    \/ \E o \in Owners, b \in Barcodes, v \in BOOLEAN :
           NextId(items) <= MaxDocs /\ AddItem(o, b, "Milk", <<"Pantry">>, v)
    \/ \E k \in 1..MaxDocs, f \in UpdateFields : UpdateItem(k, f)
    \/ \E k \in 1..MaxDocs, o \in Owners : DeleteItem(k, o)
    \/ \E o \in Owners, b \in Barcodes, c \in StoreCategories \cup {None} :
           DeleteItemsByBarcode(o, b, c, 1)
    \/ \E o \in Owners, b \in Barcodes : VerifyItemsByBarcode(o, b, "")
    \/ \E o \in Owners, c \in StoreCategories :
           NextId(categories) <= MaxDocs /\ AddCategory(o, c)
    \/ \E o \in Owners, c \in StoreCategories :
           NextId(categories) <= MaxDocs /\ EnsureCategories(o, <<c>>)
    \/ \E o \in Owners, c \in StoreCategories : DeleteCategory(o, c)

SpecStore == Init /\ [][NextStore]_vars

\* what the four queries return to owner
ItemsReturned(owner) ==
    UNION {Range(get_items(items, owner, c, GET_ITEMS_SIZE)) :
               c \in StoreCategories \cup {None}}
        \cup UNION {Range(find_items_by_barcode(items, owner, b, c)) :
                        b \in Barcodes, c \in StoreCategories \cup {None}}
        \cup Range(get_unverified_items(items, owner, UNVERIFIED_SIZE))

\* no step moves a stored document to another owner
OwnerKept ==
    /\ \A i \in items, j \in items' : i.id = j.id => i.owner_id = j.owner_id
    /\ \A c \in categories, d \in categories' :
           c.id = d.id => c.owner_id = d.owner_id

\* C1: for owners O1 # O2, an item or category created under O1 is never
\* returned by get_items, find_items_by_barcode, get_unverified_items or
\* get_categories called with O2: a document keeps the owner it was created
\* under, and every query of an owner returns that owner's documents only.
C1_OwnersIsolated ==
    /\ [](\A o \in Owners :
              /\ \A d \in ItemsReturned(o) : d \in items /\ d.owner_id = o
              /\ \A n \in Range(get_categories(categories, o)) :
                     \E c \in categories : c.owner_id = o /\ c.name = n
              /\ \A c \in categories :
                     c.owner_id # o /\ (\A e \in categories :
                                            e.owner_id = o => e.name # c.name)
                         => c.name \notin Range(get_categories(categories, o)))
    /\ [][OwnerKept]_vars

\* both owners hold an item with the same barcode and a category of the
\* same name, and each is asked for
C1_Witness ==
    /\ \E i, j \in items : /\ i.owner_id = User
                            /\ j.owner_id = Group
                            /\ i.barcode = j.barcode
    /\ ItemsReturned(User) # {}
    /\ ItemsReturned(Group) # {}

-----------------------------------------------------------------------------
(* One product bought again and again *)

LotAdd == /\ NextId(items) <= MaxLots
          /\ AddItem(User, "0001", Unknown("0001"), <<"Pantry">>, FALSE)

LotVerify == VerifyItemsByBarcode(User, "0001", "Tea")

NextLots == LotAdd \/ LotVerify

SpecLots == Init /\ [][NextLots]_vars

\* what verify_items_by_barcode(owner, barcode, new_name) has to do
VerifyContract(owner, barcode, new_name) ==
    LET ver  == verify_items_by_barcode(items, owner, barcode, new_name)
        mine == {i \in items : i.owner_id = owner /\ i.barcode = barcode}
    IN  /\ ver.ret = Cardinality(mine)
        /\ {i.id : i \in ver.items} = {i.id : i \in items}
        /\ \A i \in items : \A j \in ver.items : i.id = j.id =>
               IF i \in mine
               THEN j = [i EXCEPT !.verified = TRUE,
                                  !.product_name = IF new_name # "" THEN new_name
                                                   ELSE @]
               ELSE j = i

\* C10: verify_items_by_barcode(O, bc, new_name) sets verified and the new
\* name on every item of O with barcode bc, however many there are, returns
\* the number of items touched and leaves every other item unchanged; without
\* new_name it leaves product_name unchanged.
C10_VerifyTouchesEveryLot ==
    \A o \in Owners, b \in Barcodes, x \in {"", "Tea"} : VerifyContract(o, b, x)

-----------------------------------------------------------------------------
(* An owner who keeps adding categories *)

CatName(k) == <<ToString(k)>>

\* the name of the newest category record
Newest(cats) == (CHOOSE c \in cats : \A d \in cats : d.id <= c.id).name

\* /categories before the first category and once the list is long
ManyCommand == /\ categories = {} \/ NextId(categories) > CATEGORIES_SIZE
               /\ categories_command(User, User)

\* a name never used before, or the newest one once more
ManyTyped == /\ categories # {}
             /\ NextId(categories) <= MaxCats
             /\ \E name \in {CatName(NextId(categories)), Newest(categories)} :
                    received_category_name(User, User, name)

\* the delete buttons pressed: two of the oldest and the newest of the names
ManyDelete == \E name \in {CatName(2), CatName(3), CatName(CATEGORIES_SIZE + 1)} :
                  category_delete_cb(User, User, <<"catdel">> \o name)

NextManyCategories ==
    \/ ManyCommand
    \/ add_category_entry(User, User)
    \/ ManyTyped
    \/ ManyDelete

SpecManyCategories == Init /\ [][NextManyCategories]_vars

\* the names add_category is asked for: those on record and an unused one
AskedNames == {c.name : c \in categories} \cup {<<"Cellar">>}

\* C8: at most one category record exists per owner and name; add_category
\* returns true and creates the record exactly when no such record existed,
\* returns false and changes nothing otherwise (true then false for two
\* calls in a row); ensure_categories never creates a second record for a
\* name that exists.
C8_CategoryNamesUnique ==
    /\ \A c, d \in categories :
           c.owner_id = d.owner_id /\ c.name = d.name => c = d
    /\ \A o \in Owners, name \in AskedNames :
           LET existed == \E c \in categories : c.owner_id = o /\ c.name = name
               add     == add_category(categories, o, name)
           IN  /\ add.ret = ~existed
               /\ existed => add.categories = categories
               /\ ~existed =>
                      /\ categories \subseteq add.categories
                      /\ Cardinality(add.categories \ categories) = 1
                      /\ \A c \in add.categories \ categories :
                             c.owner_id = o /\ c.name = name
               /\ add_category(add.categories, o, name).ret = FALSE
               /\ existed => ensure_categories(categories, o, <<name>>) = categories

\* C7: category delete leaves the category in place and reports failure when
\* an item of the owner references it, and deletes it, so that it no longer
\* appears in get_categories, when no item references it.
C7_DeleteGuard ==
    [][\A o \in offered :
           category_delete_cb(o[1], User, o[2]) =>
               LET owner == _owner_id(o[1], User)
                   refs  == {i \in items : /\ i.owner_id = owner
                                            /\ i.category = Tail(o[2])}
               IN  IF refs # {}
                   THEN /\ categories' = categories
                        /\ last'.reply = "still has items"
                   ELSE Tail(o[2]) \notin
                            Range(get_categories(categories', owner))]_vars

-----------------------------------------------------------------------------
(* Review: what a verification leaves behind *)

\* the items of owner with barcode in the pantry its
Lots(its, owner, barcode) ==
    {i \in its : i.owner_id = owner /\ i.barcode = barcode}

\* C11: when the user verifies a product in review, by ok on a product they
\* hold or by a non-empty name typed after rename, the product cache
\* afterwards holds an entry for that barcode carrying the name the items of
\* that barcode now have.
C11_VerifyWritesCache ==
    [][\A b \in Barcodes :
          (\/ /\ review_action_cb(User, User, <<"rev", "ok", b>>)
              /\ Lots(items, User, b) # {}
           \/ /\ \E t \in NameTyped : /\ review_received_name(User, User, t)
                                      /\ StripStr(t) # ""
              /\ user_data[User]["review_barcode"] = Some(b)
              /\ Lots(items, User, b) # {})
          => \E p \in cache' :
                 /\ p.barcode = b
                 /\ \A i \in Lots(items', User, b) :
                        i.product_name = p.product_name]_vars

\* C13: review action done ends the review session from any review state:
\* after it the session waits neither for a name nor for a barcode.
C13_DoneEndsReview ==
    [][review_action_cb(User, User, <<"rev", "done">>)
           => review_conv'[<<User, User>>] = END]_vars

\* a press of rename or fixcode in session s
PressesTarget(s) ==
    \E b \in Barcodes, a \in {"rename", "fixcode"} :
        review_action_cb(s[1], s[2], <<"rev", a, b>>)

\* C14: while a session waits for the text of a rename or a barcode fix, the
\* barcode the text will be applied to stays the one rename or fixcode was
\* pressed for in that session: no other step that leaves the session waiting
\* changes the review cursor.
C14_TargetKept ==
    [][\A s \in Sessions :
          (/\ review_conv[s] # END
           /\ review_conv'[s] = review_conv[s]
           /\ ~PressesTarget(s))
              => user_data'[s[2]]["review_barcode"]
                     = user_data[s[2]]["review_barcode"]]_vars

-----------------------------------------------------------------------------
(* Renaming a product that was bought again and again *)

RenamePress == review_action_cb(User, User, <<"rev", "rename", "0001">>)

RenameTyped == \E t \in NameTyped : review_received_name(User, User, t)

NextRenameLots ==
    \/ LotAdd
    \/ review_command(User, User)
    \/ RenamePress
    \/ RenameTyped

SpecRenameLots == Init /\ [][NextRenameLots]_vars

\* C12: on receipt of a non-empty name in the rename sub-flow for barcode b,
\* every item of the owner with barcode b becomes verified and carries the new
\* name, the product cache holds an entry for b and every entry for b carries
\* the new name (so a later add scan of b gets it), and the sub-flow ends.
C12_RenameAppliesEverywhere ==
    [][\A t \in NameTyped, b \in Barcodes :
          (/\ review_received_name(User, User, t)
           /\ StripStr(t) # ""
           /\ user_data[User]["review_barcode"] = Some(b))
          => /\ \A i \in Lots(items', User, b) :
                    i.verified /\ i.product_name = StripStr(t)
             /\ \E p \in cache' : p.barcode = b
             /\ \A p \in cache' : p.barcode = b => p.product_name = StripStr(t)
             /\ review_conv'[<<User, User>>] = END]_vars

-----------------------------------------------------------------------------
(* Scanning in add mode: the catalog *)

\* the catalog answers the claim is about: the request fails, the catalog
\* does not know the barcode, the product it knows has an empty name
NoName == {Failed, NotFound, Product(" ", "")}

C17_CatalogOnlyOnMiss ==
    [][\A r \in CatalogResponses :
          process_add_scan(r)
          => LET b       == batch[1]
                 barcode == CodeOf(Head(b.scans))
                 miss    == barcode # "" /\ ~\E p \in cache : p.barcode = barcode
             IN  /\ batch'[1].lookups = b.lookups + (IF miss THEN 1 ELSE 0)
                 /\ ~miss => cache' = cache]_vars

\* one batch scanned a barcode twice: the first scan asked the catalog and
\* cached the answer, the second was served from the cache
C17_Witness ==
    /\ batch # None
    /\ Len(batch[1].lines) = 2
    /\ batch[1].lines[1].mark = "needs review"
    /\ batch[1].lines[2].mark = "verified"
    /\ batch[1].lookups = 1

-----------------------------------------------------------------------------
(* The product cache called directly *)

CacheNames == {"Milk", "Tea", "Pasta", "Rice"}

CacheProduct(barcode, product_name) ==
    /\ cache' \in cache_product(cache, barcode, product_name)
    /\ last' = [handler |-> "cache_product", reply |-> barcode]
    /\ UNCHANGED <<items, categories, user_data, scan_conv, category_conv,
                   review_conv, batch, offered, link_open>>

GetCachedProduct(barcode) ==
    /\ \E cached \in get_cached_product(cache, barcode) :
           last' = [handler |-> "get_cached_product",
                    reply |-> IF cached = None THEN ""
                              ELSE cached[1].product_name]
    /\ UNCHANGED <<items, categories, cache, user_data, scan_conv,
                   category_conv, review_conv, batch, offered, link_open>>

NextCache ==
    \/ \E b \in Barcodes, n \in CacheNames : CacheProduct(b, n)
    \/ \E b \in Barcodes : GetCachedProduct(b)

SpecCache == Init /\ [][NextCache]_vars

\* C18: after any sequence of cache_product calls the product cache holds at
\* most one entry per barcode, and right after cache_product(bc, name)
\* get_cached_product(bc) returns an entry carrying that name while the
\* entries of the other barcodes are as they were.
C18_OneEntryPerBarcode ==
    /\ [](\A p, q \in cache : p.barcode = q.barcode => p = q)
    /\ [][\A b \in Barcodes, n \in CacheNames :
             CacheProduct(b, n)
             => /\ \A r \in get_cached_product(cache', b) :
                       r # None /\ r[1].product_name = n
                /\ {p \in cache' : p.barcode # b} = {p \in cache : p.barcode # b}]_vars

\* the entry of 0001 was created first, the entry of 0002 after it, and the
\* last call wrote 0001 again with another name than the one just read
C18_Witness ==
    /\ last = [handler |-> "cache_product", reply |-> "0001"]
    /\ \E p, q \in cache : /\ p.barcode = "0001" /\ p.id = 1
                           /\ p.product_name = "Tea"
                           /\ q.barcode = "0002" /\ q.id = 2

-----------------------------------------------------------------------------
(* Deleting items *)

\* C19: delete_item(I, owner) removes item I and returns true exactly when I
\* exists and belongs to owner; called with another owner, or for an id that
\* does not exist, it returns false and leaves the store unchanged, and the
\* item is still returned by the queries of its real owner.
C19_DeleteItemChecksOwner ==
    [][\A k \in 1..MaxDocs, o \in Owners :
          DeleteItem(k, o)
          => LET mine == {i \in items : i.id = k /\ i.owner_id = o}
             IN  /\ items' = items \ mine
                 /\ delete_item(items, k, o).ret = (mine # {})
                 /\ mine = {} => UNCHANGED <<items, categories, cache>>
                 /\ \A i \in items :
                        i.id = k /\ i.owner_id # o
                            => i \in Range(get_items(items', i.owner_id, None,
                                                     GET_ITEMS_SIZE))]_vars

\* item 1 was deleted by its owner; item 2 is the user's, and a delete of it
\* in the name of the group is refused
C19_Witness ==
    /\ \E i \in items : i.id = 2 /\ i.owner_id = User
    /\ \A i \in items : i.id # 1
    /\ delete_item(items, 2, Group) = [items |-> items, ret |-> FALSE]
    /\ delete_item(items, 2, User).ret

\* how many items a caller asks delete_items_by_barcode to delete
DeleteLimits == {0, 1, 2, FIND_SIZE + 1}

LotDelete == \E l \in DeleteLimits :
                 DeleteItemsByBarcode(User, "0001", None, l)

NextLotsDelete == LotAdd \/ LotDelete

SpecLotsDelete == Init /\ [][NextLotsDelete]_vars

\* what delete_items_by_barcode(owner, barcode, category, limit) has to do
DeleteContract(owner, barcode, category, limit) ==
    LET matches == {i \in Lots(items, owner, barcode) :
                        Truthy(category) => i.category = category}
        n       == Min(limit, Cardinality(matches))
        gone    == items \ items'
    IN  /\ items' \subseteq items
        /\ gone \subseteq matches
        /\ Cardinality(gone) = n
        /\ \A g \in gone, m \in matches \ gone : g.added_at < m.added_at
        /\ delete_items_by_barcode(items, owner, barcode, category, limit).ret = n

-----------------------------------------------------------------------------
(* Removing a lot from a store that a second bot process serves as well *)

RaceSend == \E b \in Barcodes, md \in {"add", "remove"} :
                webapp_scan_entry(User, User, Payload(None, Some(b), Some(md)))

\* the other process removes the same barcode of the same owner and category
RaceOther == DeleteItemsByBarcode(User, "0001", <<"Pantry">>, 1)

NextRace ==
    \/ RaceSend
    \/ ScanSelect
    \/ NamesAdd
    \/ remove_find
    \/ remove_delete
    \/ RaceOther
    \/ finish_select_category

SpecRace == Init /\ [][NextRace]_vars

\* C15: when two sessions remove the same barcode of the same owner and
\* category and both have read the same lot before either deletes it, the
\* delete that comes second is a no-op reported as not found: it changes no
\* item, raises no error, the batch goes on and the scan is not reported as
\* removed.
C15_LostRaceIsNotFound ==
    [][(/\ remove_delete
        /\ batch[1].found[1] # <<>>
        /\ ~\E i \in items : i.id = batch[1].found[1][1])
       => /\ items' = items
          /\ batch' # None
          /\ batch'[1].lines # <<>>
          /\ batch'[1].lines[Len(batch'[1].lines)].mark = "not found"]_vars

-----------------------------------------------------------------------------
(* The same barcode several times in one remove batch *)

\* the lots a remove scan may consume: the owner's lots of the scanned
\* barcode in the category the batch was sent to
Consumable ==
    {i \in items : /\ i.owner_id = batch[1].owner
                   /\ i.barcode = CodeOf(Head(batch[1].scans))
                   /\ i.category = batch[1].category}

\* C21: every scan of a remove batch consumes exactly one lot of its barcode
\* in the target category while such a lot is left and is marked as removed;
\* once none is left the scan is marked as not found and the pantry is not
\* touched.  k scans against m lots so delete min(k, m) lots and report the
\* other scans as not found.
C21_RemoveConsumesLots ==
    [][process_remove_scan =>
           LET mark == batch'[1].lines[Len(batch[1].lines) + 1].mark
           IN  IF Consumable = {}
               THEN items' = items /\ mark = "not found"
               ELSE /\ items' \subseteq items
                    /\ Cardinality(items \ items') = 1
                    /\ items \ items' \subseteq Consumable
                    /\ mark = "removed"]_vars

\* the second scan of a batch finds the lot its first scan has removed gone
C21_Witness ==
    /\ batch # None
    /\ batch[1].mode = "remove"
    /\ Len(batch[1].lines) = 2
    /\ batch[1].lines[1].mark = "removed"
    /\ batch[1].lines[2].mark = "not found"
    /\ batch[1].lines[1].text = batch[1].lines[2].text

-----------------------------------------------------------------------------
(* One review row per product *)

\* the page sizes the review rows are asked for
ReviewSizes == {1, UNVERIFIED_SIZE}

\* the owner's lots that wait for review
Unverified(owner) == {i \in items : i.owner_id = owner /\ ~i.verified}

\* C22: get_unverified_items(owner, size) returns only unverified items of
\* that owner, no two rows with the same barcode, every row is the most
\* recently added unverified lot of its barcode, the rows come newest first
\* and there is a row for every barcode with an unverified lot, up to size
\* rows.
C22_OneRowPerBarcode ==
    \A o \in Owners, size \in ReviewSizes :
        LET rows == get_unverified_items(items, o, size)
            codes == {i.barcode : i \in Unverified(o)}
        IN  /\ \A k \in 1..Len(rows) :
                   /\ rows[k] \in Unverified(o)
                   /\ \A i \in Unverified(o) :
                          i.barcode = rows[k].barcode
                              => i.added_at <= rows[k].added_at
            /\ \A k, l \in 1..Len(rows) :
                   k < l => /\ rows[k].barcode # rows[l].barcode
                            /\ rows[k].added_at > rows[l].added_at
            /\ Len(rows) = Min(size, Cardinality(codes))
            /\ size >= Cardinality(codes)
                   => codes = {rows[k].barcode : k \in 1..Len(rows)}

\* an owner with two unverified lots of one barcode gets one row for them
C22_Witness ==
    \E i, j \in Unverified(User) :
        /\ i.id # j.id
        /\ i.barcode = j.barcode
        /\ Len(get_unverified_items(items, User, UNVERIFIED_SIZE)) = 1

-----------------------------------------------------------------------------
(* A category holding more lots than one page of the listing *)

\* the pantry after n scans of 0001 were added to Pantry
Stocked(n) ==
    {[id |-> k, owner_id |-> User, barcode |-> "0001",
      product_name |-> Unknown("0001"), category |-> <<"Pantry">>,
      quantity |-> 1, added_at |-> k, verified |-> FALSE] : k \in 1..n}

\* the private chat after that many add-mode scans while the catalog was
\* down, three lots short of the bound
InitPantry ==
    /\ items = Stocked(MaxPantry - 3)
    /\ categories = _ensure_owner_categories({}, User, User)
    /\ cache = {}
    /\ user_data = [u \in Users |-> EmptyData]
    /\ scan_conv = [s \in Sessions |-> END]
    /\ category_conv = [s \in Sessions |-> END]
    /\ review_conv = [s \in Sessions |-> END]
    /\ batch = None
    /\ offered = ScanButtons(User, <<<<"Pantry">>>>)
    /\ last = [handler |-> "webapp_select_category", reply |-> "Added to"]
    /\ link_open = [u \in Users |-> FALSE]

PantryLot == \E b \in Barcodes :
                 /\ NextId(items) <= MaxPantry
                 /\ AddItem(User, b, Unknown(b), <<"Pantry">>, FALSE)

\* the pantry buttons pressed in the private chat
PantryView ==
    \E o \in offered : o[1] = User /\ pantry_category_cb(User, User, o[2])

PantryAdd ==
    /\ NextId(items) <= MaxPantry
    /\ \E o \in offered : o[1] = User /\ pantry_add_cb(User, User, o[2])

NextPantry ==
    \/ PantryLot
    \/ pantry_command(User, User)
    \/ PantryView
    \/ PantryAdd

SpecPantry == InitPantry /\ [][NextPantry]_vars

\* the sum of the quantity fields of a set of items, counted unit by unit
SumQuantity(S) ==
    Cardinality(UNION {{<<i.id, q>> : q \in 1..i.quantity} : i \in S})

\* the view just shown lists every barcode of the category with the sum of
\* the quantities of its items
ViewSums ==
    \A b \in Barcodes :
        LET lots == {i \in items : /\ i.owner_id = User
                                   /\ i.category = last.category
                                   /\ i.barcode = b}
        IN  lots # {} =>
                \E k \in 1..Len(last.view) :
                    /\ last.view[k].barcode = b
                    /\ last.view[k].quantity = SumQuantity(lots)

\* C23: in the grouped category view the quantity displayed for a barcode is
\* the sum of the quantity fields of all items of the owner with that
\* category and barcode, however many such items there are.
C23_ViewSumsQuantities ==
    [][PantryView \/ PantryAdd => ViewSums']_vars

-----------------------------------------------------------------------------
(* Reviewing a product that was bought again and again *)

\* the private chat after as many add-mode scans of 0001 as the bound
\* allows, made while the catalog was down
InitReviewLots ==
    /\ items = Stocked(MaxLots)
    /\ categories = _ensure_owner_categories({}, User, User)
    /\ cache = {}
    /\ user_data = [u \in Users |-> EmptyData]
    /\ scan_conv = [s \in Sessions |-> END]
    /\ category_conv = [s \in Sessions |-> END]
    /\ review_conv = [s \in Sessions |-> END]
    /\ batch = None
    /\ offered = ScanButtons(User, <<<<"Pantry">>>>)
    /\ last = [handler |-> "webapp_select_category", reply |-> "Added to"]
    /\ link_open = [u \in Users |-> FALSE]

NextReviewLots ==
    \/ review_command(User, User)
    \/ ReviewPress
    \/ ReviewName
    \/ ReviewBarcode
    \/ review_cancel(User, User)

SpecReviewLots == InitReviewLots /\ [][NextReviewLots]_vars

\* what the step shows next: an unverified product of the owner other than
\* barcode, or that nothing is left to verify when the owner has none
PresentsNext(barcode) ==
    IF UnverifiedBarcodes(User)' = {}
    THEN last'.reply = "nothing to verify"
    ELSE /\ last'.reply = "review"
         /\ user_data'[User]["review_barcode"] # None
         /\ user_data'[User]["review_barcode"][1] \in UnverifiedBarcodes(User)'
         /\ user_data'[User]["review_barcode"][1] # barcode

\* C24: review action ok on barcode b sets verified on every item of the
\* owner with barcode b, in every category, changes no product name, and
\* presents next an unverified product other than b, or the nothing-to-verify
\* state when none remains.
C24_OkVerifiesEveryLot ==
    [][\A b \in Barcodes :
          review_action_cb(User, User, <<"rev", "ok", b>>) =>
              /\ \A i \in Lots(items', User, b) : i.verified
              /\ {i.id : i \in items'} = {i.id : i \in items}
              /\ \A i \in items, j \in items' :
                     i.id = j.id => j.product_name = i.product_name
              /\ PresentsNext(b)]_vars

\* C25: review action remove on barcode b deletes every item of the owner
\* with barcode b, in every category and however many lots there are, leaves
\* every other item as it was, and presents the next unverified product.
C25_RemoveDeletesEveryLot ==
    [][\A b \in Barcodes :
          review_action_cb(User, User, <<"rev", "remove", b>>) =>
              /\ Lots(items', User, b) = {}
              /\ items' = items \ Lots(items, User, b)
              /\ PresentsNext(b)]_vars

\* C26: on receipt of a new barcode in the fixcode sub-flow, no item of the
\* owner keeps the old barcode: each item that had it carries the new one,
\* with the cached product name of the new barcode when the cache has an
\* entry for it and its own name otherwise; all other items stay as they
\* were and the sub-flow ends.
C26_FixcodeRetargetsEveryLot ==
    [][\A t \in BarcodeTyped, old \in Barcodes :
          (/\ review_received_barcode(User, User, t)
           /\ StripStr(t) # ""
           /\ StripStr(t) # old
           /\ user_data[User]["review_barcode"] = Some(old))
          => /\ Lots(items', User, old) = {}
             /\ {i.id : i \in items'} = {i.id : i \in items}
             /\ \A i \in items, j \in items' : i.id = j.id =>
                    IF i \in Lots(items, User, old)
                    THEN /\ j.barcode = StripStr(t)
                         /\ \A p \in cache : p.barcode = StripStr(t)
                                => j.product_name = p.product_name
                         /\ (\A p \in cache : p.barcode # StripStr(t))
                                => j.product_name = i.product_name
                         /\ j = [i EXCEPT !.barcode = j.barcode,
                                          !.product_name = j.product_name]
                    ELSE j = i
             /\ review_conv'[<<User, User>>] = END]_vars

-----------------------------------------------------------------------------
(* Cancelling at the category selection *)

\* the two ways to cancel while the categories are shown
CancelPressed == webapp_select_category(User, User, <<"scancat", "__cancel__">>)

\* the session holds no batch that waits for a category
NothingPending(user) ==
    /\ user_data[user]["scan_scans"] = None
    /\ user_data[user]["scan_mode"] = None

\* C27: cancelling at the category selection, by the cancel button or by
\* /cancel, removes the pending scans and the mode from the session, ends
\* the flow and changes no item and no cache entry; afterwards the session
\* holds no pending batch while the flow is ended, and a category choice
\* starts a batch only from the selection step and only with the scans the
\* session holds then, so the discarded batch is never processed.
C27_CancelDiscardsBatch ==
    /\ [][(CancelPressed \/ ScanCancel) =>
              /\ NothingPending(User)'
              /\ scan_conv'[<<User, User>>] = END
              /\ batch' = None
              /\ UNCHANGED <<items, categories, cache>>]_vars
    /\ [](scan_conv[<<User, User>>] = END => NothingPending(User))
    /\ [][(batch = None /\ batch' # None) =>
              /\ scan_conv[<<User, User>>] = SELECT_CATEGORY
              /\ user_data[User]["scan_scans"] = Some(batch'[1].scans)
              /\ NothingPending(User)']_vars

\* a batch was cancelled with /cancel while the pantry held items
C27_Witness ==
    /\ last.handler = "webapp_cancel"
    /\ NothingPending(User)
    /\ scan_conv[<<User, User>>] = END
    /\ items # {}

-----------------------------------------------------------------------------
(* Payloads without a scan *)

\* the payload is not JSON, or it brings neither scans nor a code
CarriesNothing(p) ==
    \/ p.json = "malformed"
    \/ (p.scans = None \/ p.scans = Some(<<>>)) /\ p.code = None

\* C28: a scan payload that is malformed JSON, or that carries neither a
\* non-empty scans list nor a single code, is answered with an error reply;
\* the scan flow ends at once without entering the category selection, the
\* session holds no pending batch, and no item, category or cache entry is
\* changed.
C28_BadPayloadRejected ==
    [][\A p \in ScanPayloads({None, Some("add"), Some("remove")}) :
          (webapp_scan_entry(User, User, p) /\ CarriesNothing(p)) =>
              /\ last'.handler = "webapp_scan_entry"
              /\ last'.reply \in {"invalid data", "no barcodes"}
              /\ scan_conv'[<<User, User>>] = END
              /\ NothingPending(User)'
              /\ batch' = None
              /\ UNCHANGED <<items, categories, cache>>]_vars

-----------------------------------------------------------------------------
(* The add-category conversation *)

\* /cancel in the private chat: the first conversation that is waiting takes it
SlashCancel ==
    \/ webapp_cancel(User, User)
    \/ cancel_conversation(User, User)
    \/ review_cancel(User, User)

\* C29: while the add-category flow waits for the name, a text that is empty
\* after trimming leaves it waiting and creates nothing; any other text adds
\* the trimmed name once, answers "created" when the owner did not have the
\* name and "already exists" when they had, and ends the flow; /cancel ends
\* the flow and creates no category.
C29_AddCategoryFlow ==
    [][/\ \A t \in NameTexts :
              received_category_name(User, User, t) =>
                  LET name == StripText(t)
                      had  == \E c \in categories :
                                  c.owner_id = User /\ c.name = name
                  IN  IF name = EmptyStr
                      THEN /\ category_conv'[<<User, User>>] = NEW_CATEGORY_NAME
                           /\ categories' = categories
                      ELSE /\ category_conv'[<<User, User>>] = END
                           /\ IF had
                              THEN /\ categories' = categories
                                   /\ last'.reply = "already exists"
                              ELSE /\ \E c \in categories' :
                                          /\ c.owner_id = User /\ c.name = name
                                          /\ categories' = categories \cup {c}
                                   /\ last'.reply = "created"
       /\ (SlashCancel /\ category_conv[<<User, User>>] = NEW_CATEGORY_NAME) =>
              /\ category_conv'[<<User, User>>] = END
              /\ categories' = categories]_vars

-----------------------------------------------------------------------------
(* Two sessions of one owner naming the same category *)

\* received_category_name as the two requests add_category sends to a store
\* that has other clients: first the search of get_categories (line 281)
add_category_search(chat, user, text) ==
    LET name == StripText(text)
        owner == _owner_id(chat, user)
    IN  /\ Idle
        /\ category_conv[<<chat, user>>] = NEW_CATEGORY_NAME
        /\ name # EmptyStr
        /\ batch' = Some([handler |-> "received_category_name",
                          chat |-> chat, user |-> user, owner |-> owner,
                          name |-> name,
                          existing |-> Range(get_categories(categories, owner))])
        /\ UNCHANGED <<items, categories, cache, user_data, scan_conv,
                       category_conv, review_conv, offered, last, link_open>>

\* then the insert, decided on what the search returned (lines 282-293),
\* and the reply of the handler
add_category_index ==
    /\ batch # None
    /\ batch[1].handler = "received_category_name"
    /\ LET b == batch[1]
       IN  /\ IF b.name \in b.existing
              THEN /\ UNCHANGED categories
                   /\ last' = [handler |-> "received_category_name",
                               reply |-> "already exists"]
              ELSE /\ categories' = categories \cup
                          {NewCategory(categories, b.owner, b.name)}
                   /\ last' = [handler |-> "received_category_name",
                               reply |-> "created"]
           /\ category_conv' = [category_conv EXCEPT ![<<b.chat, b.user>>] = END]
    /\ batch' = None
    /\ UNCHANGED <<items, cache, user_data, scan_conv, review_conv, offered,
                   link_open>>

\* the names both sessions ask for
RaceNames == {<<"Pantry">>, <<"Tins">>}

RaceList == NextId(categories) <= MaxId /\ categories_command(User, User)

RaceTyped == \E t \in RaceNames :
                 /\ NextId(categories) <= MaxId
                 /\ add_category_search(User, User, t)

RacePress == \E o \in offered : category_delete_cb(User, User, o[2])

\* the other session of the owner, served by a second client of the store
RaceAdd == \E n \in RaceNames :
               NextId(categories) <= MaxId /\ AddCategory(User, n)

RaceEnsure == /\ NextId(categories) <= MaxId
              /\ EnsureCategories(User, DEFAULT_CATEGORIES)

NextCategoryRace ==
    \/ RaceList
    \/ add_category_entry(User, User)
    \/ RacePress
    \/ RaceTyped
    \/ add_category_index
    \/ RaceAdd
    \/ RaceEnsure

SpecCategoryRace == Init /\ [][NextCategoryRace]_vars

\* C30: when add_category of one session and add_category or
\* ensure_categories of another session of the same owner run for the same
\* name with their read and write steps interleaved, the owner has at most
\* one category record of that name once the writes are done.
C30_RacedNameOnce ==
    [][add_category_index =>
           Cardinality({c \in categories' : /\ c.owner_id = batch[1].owner
                                            /\ c.name = batch[1].name}) <= 1]_vars

-----------------------------------------------------------------------------
(* Start-up: OpenSearchClient.wait_for_cluster, called by main() before   *)
(* the indices exist and before any update is handled                     *)

\* defaults of wait_for_cluster (main() passes no arguments)
DEFAULT_RETRIES == 30
DEFAULT_DELAY == 2

\* the largest non-default retries argument tried
MaxRetries == 3

RetriesArgs == (0..MaxRetries) \cup {DEFAULT_RETRIES}
DelayArgs == {DEFAULT_DELAY, 5}

\* the frame of wait_for_cluster: its arguments, the loop variable and
\* (history) the sleeps it has made
InitStartup ==
    /\ items = {}
    /\ categories = {}
    /\ cache = {}
    /\ user_data = [u \in Users |-> EmptyData]
    /\ scan_conv = [s \in Sessions |-> END]
    /\ category_conv = [s \in Sessions |-> END]
    /\ review_conv = [s \in Sessions |-> END]
    /\ \E r \in RetriesArgs, d \in DelayArgs :
           batch = Some([handler |-> "wait_for_cluster", retries |-> r,
                         delay |-> d, attempt |-> 0, slept |-> <<>>])
    /\ offered = {}
    /\ last = [handler |-> "main", reply |-> ""]
    /\ link_open = [u \in Users |-> FALSE]

InStartup == batch # None /\ batch[1].handler = "wait_for_cluster"

\* range(retries) is exhausted, alternative body: one attempt too early
wait_for_cluster_raise_early ==
    /\ InStartup
    /\ batch[1].attempt >= batch[1].retries - 1
    /\ last' = [handler |-> "wait_for_cluster", reply |-> "RuntimeError",
                retries |-> batch[1].retries, delay |-> batch[1].delay,
                attempts |-> batch[1].attempt, slept |-> batch[1].slept]
    /\ batch' = None
    /\ UNCHANGED <<items, categories, cache, user_data, scan_conv,
                   category_conv, review_conv, offered, link_open>>

\* one pass of the loop in which client.info() answers (lines 100-102)
wait_for_cluster_connected ==
    /\ InStartup
    /\ batch[1].attempt < batch[1].retries
    /\ last' = [handler |-> "wait_for_cluster", reply |-> "returned",
                retries |-> batch[1].retries, delay |-> batch[1].delay,
                attempts |-> batch[1].attempt + 1, slept |-> batch[1].slept]
    /\ batch' = None
    /\ UNCHANGED <<items, categories, cache, user_data, scan_conv,
                   category_conv, review_conv, offered, link_open>>

\* one pass of the loop in which the try block raises (lines 103-110)
wait_for_cluster_not_ready ==
    /\ InStartup
    /\ batch[1].attempt < batch[1].retries
    /\ batch' = Some([batch[1] EXCEPT
                          !.attempt = @ + 1,
                          !.slept = Append(@, batch[1].delay)])
    /\ UNCHANGED <<items, categories, cache, user_data, scan_conv,
                   category_conv, review_conv, offered, last, link_open>>

\* range(retries) is exhausted (line 111)
wait_for_cluster_raise ==
    /\ InStartup
    /\ batch[1].attempt >= batch[1].retries
    /\ last' = [handler |-> "wait_for_cluster", reply |-> "RuntimeError",
                retries |-> batch[1].retries, delay |-> batch[1].delay,
                attempts |-> batch[1].attempt, slept |-> batch[1].slept]
    /\ batch' = None
    /\ UNCHANGED <<items, categories, cache, user_data, scan_conv,
                   category_conv, review_conv, offered, link_open>>

NextStartup ==
    \/ wait_for_cluster_connected
    \/ wait_for_cluster_not_ready
    \/ wait_for_cluster_raise

\* the loop is straight-line code of the only thread of main(): as long as
\* the call has not ended, its next pass is taken
SpecStartup == InitStartup /\ [][NextStartup]_vars /\ WF_vars(NextStartup)

StartupEnded == batch = None /\ last.handler = "wait_for_cluster"

\* what holds of the call while it runs and once it has ended
StartupContract ==
    /\ InStartup =>
           /\ batch[1].attempt <= batch[1].retries
           /\ Len(batch[1].slept) = batch[1].attempt
           /\ \A k \in 1..Len(batch[1].slept) : batch[1].slept[k] = batch[1].delay
    /\ StartupEnded =>
           /\ last.attempts <= last.retries
           /\ \A k \in 1..Len(last.slept) : last.slept[k] = last.delay
           /\ last.reply = "returned" =>
                  /\ last.attempts >= 1
                  /\ Len(last.slept) = last.attempts - 1
           /\ last.reply = "RuntimeError" =>
                  /\ last.attempts = last.retries
                  /\ Len(last.slept) = last.retries

\* C31: wait_for_cluster ends; it returns at the first attempt that connects
\* (every attempt before it failed and was followed by one sleep of `delay`),
\* it makes at most `retries` attempts, and it raises RuntimeError only after
\* `retries` failed attempts.
C31_WaitForClusterTerminates ==
    /\ <>StartupEnded
    /\ []StartupContract

\* returned at the third attempt, after two failed ones
C31_Witness ==
    /\ StartupEnded
    /\ last.reply = "returned"
    /\ last.attempts = 3
    /\ last.retries = DEFAULT_RETRIES

-----------------------------------------------------------------------------
(* The per-unit buttons of the category view on a small pantry *)

\* a scan of the owner stored by another flow, verified or not
UnitLot == \E b \in Barcodes, v \in BOOLEAN :
               /\ NextId(items) <= MaxId
               /\ AddItem(User, b, Unknown(b), <<"Pantry">>, v)

UnitView ==
    \E o \in offered : o[1] = User /\ pantry_category_cb(User, User, o[2])

UnitAdd ==
    /\ NextId(items) <= MaxId
    /\ \E o \in offered : o[1] = User /\ pantry_add_cb(User, User, o[2])

UnitDel ==
    \E o \in offered : o[1] = User /\ pantry_delete_cb(User, User, o[2])

NextUnits ==
    \/ UnitLot
    \/ pantry_command(User, User)
    \/ UnitView
    \/ UnitAdd
    \/ UnitDel

SpecUnits == Init /\ [][NextUnits]_vars

\* every line of the view just shown carries the id of the earliest item of
\* its group
OldestTracked ==
    \A k \in 1..Len(last.view) :
        LET lots == {i \in items : /\ i.owner_id = User
                                   /\ i.category = last.category
                                   /\ i.barcode = last.view[k].barcode}
        IN  \E i \in lots :
                /\ i.id = last.view[k].oldest_id
                /\ \A j \in lots : i.added_at <= j.added_at

\* C32: in the grouped category view the id tracked for a product group
\* (oldest_id) is the id of the item with the earliest added_at among the
\* items of that owner, category and barcode.
C32_OldestIdIsEarliest ==
    [][UnitView \/ UnitAdd \/ UnitDel => OldestTracked']_vars

-----------------------------------------------------------------------------
(* A batch that stops half way: the store stops answering *)

\* a pass of either loop of _process_scan_batch whose first request to the
\* store is refused, compensated by deleting the item stored last
store_call_raises_rolls_back ==
    /\ batch # None
    /\ batch[1].scans # <<>>
    /\ batch[1].found = None
    /\ batch[1].mode = "remove" \/ CodeOf(Head(batch[1].scans)) # ""
    /\ LET b == batch[1]
       IN  /\ user_data' = PopKey(user_data, b.user, "_override_owner")
           /\ last' = [handler |-> "webapp_select_category",
                       reply |-> "ConnectionError", mode |-> b.mode,
                       lines |-> b.lines]
           /\ link_open' = [link_open EXCEPT ![b.user] = FALSE]
           /\ items' = IF b.lines = <<>> THEN items
                       ELSE {i \in items : i.id + 1 # NextId(items)}
    /\ batch' = None
    /\ UNCHANGED <<categories, cache, scan_conv, category_conv, review_conv,
                   offered>>

\* a pass of either loop of _process_scan_batch (lines 41-43, 51-57) whose
\* first request to the store (the search of delete_items_by_barcode or of
\* get_cached_product) raises because the cluster does not answer.  Nothing
\* catches the error before it leaves webapp_select_category: the finally
\* clause runs (line 186), no summary is sent, the conversation keeps its
\* state.  lines (history) is the summary built so far.
store_call_raises ==
    /\ batch # None
    /\ batch[1].scans # <<>>
    /\ batch[1].found = None
    /\ batch[1].mode = "remove" \/ CodeOf(Head(batch[1].scans)) # ""
    /\ LET b == batch[1]
       IN  /\ user_data' = PopKey(user_data, b.user, "_override_owner")
           /\ last' = [handler |-> "webapp_select_category",
                       reply |-> "ConnectionError", mode |-> b.mode,
                       lines |-> b.lines]
           /\ link_open' = [link_open EXCEPT ![b.user] = FALSE]
    /\ batch' = None
    /\ UNCHANGED <<items, categories, cache, scan_conv, category_conv,
                   review_conv, offered>>

PartialSend == \E l \in ScanLists, md \in {"add", "remove"} :
                   webapp_scan_entry(User, User, Payload(Some(l), None, Some(md)))

PartialAdd == \E r \in {Failed, Product("Milk", "")} : process_add_scan(r)

NextPartial ==
    \/ PartialSend
    \/ ScanSelect
    \/ process_remove_scan
    \/ PartialAdd
    \/ store_call_raises
    \/ finish_select_category

SpecPartial == Init /\ [][NextPartial]_vars

\* the step is a pass for one entry whose effect is decided by the store as
\* the pass finds it: a remove entry takes one lot of its barcode if there
\* is one, an add entry with a code stores one lot
EntryOutcome ==
    LET b == batch[1]
        barcode == CodeOf(Head(b.scans))
        line == batch'[1].lines[Len(batch'[1].lines)]
    IN  /\ process_remove_scan =>
               IF Consumable # {}
               THEN /\ \E i \in Consumable : items' = items \ {i}
                    /\ line.mark = "removed"
               ELSE /\ items' = items
                    /\ line.mark = "not found"
        /\ (PartialAdd /\ barcode # "") =>
               \E i \in items' \ items :
                   /\ items' = items \cup {i}
                   /\ i.barcode = barcode
                   /\ i.owner_id = b.owner
                   /\ i.category = b.category

\* C33: a scan batch is not a transaction.  When processing stops at an entry
\* because a store call fails, the store is left as the entries before it
\* made it: while a batch runs no step takes back an insert of an add batch
\* or a delete of a remove batch, and what a pass does for its entry is
\* decided by the store as that pass finds it.
C33_NoRollback ==
    [][/\ store_call_raises => (items' = items /\ cache' = cache)
       /\ (batch # None /\ batch[1].mode # "remove") =>
              (items \subseteq items' /\ cache \subseteq cache')
       /\ (batch # None /\ batch[1].mode = "remove") =>
              (items' \subseteq items /\ cache' = cache)
       /\ EntryOutcome]_vars

\* an add batch stopped at its second entry: the lot stored for the first
\* entry is in the store
C33_Witness ==
    /\ batch = None
    /\ last.reply = "ConnectionError"
    /\ last.mode = "add"
    /\ Len(last.lines) = 1
    /\ \E i \in items : /\ i.product_name = last.lines[1].text
                        /\ i.id + 1 = NextId(items)

-----------------------------------------------------------------------------
(* Payloads whose "mode" is neither "add" nor "remove" *)

\* "mode" missing, one of the two values the scanner page sends, or another
\* string
PayloadModes == {None, Some("add"), Some("remove"), Some("delete")}

ModeSend == \E b \in Barcodes, md \in PayloadModes :
                webapp_scan_entry(User, User, Payload(None, Some(b), md))

ModeAdd == process_add_scan(Failed)

NextModes ==
    \/ ModeSend
    \/ ScanSelect
    \/ process_remove_scan
    \/ ModeAdd
    \/ finish_select_category

SpecModes == Init /\ [][NextModes]_vars

\* C34: the operation applied to a scan batch is the one announced: whatever
\* mode value the payload carried, a batch announced as "remove mode" and
\* reported as "Removed from <category>" only deletes items and inserts none
\* (every line of its summary is a removal or a not-found), and a batch
\* announced as "add mode" only inserts.
C34_AnnouncedModeApplied ==
    [][/\ (batch # None /\ mode_label(batch[1].mode) = "remove mode") =>
              items' \subseteq items
       /\ (batch # None /\ mode_label(batch[1].mode) = "add mode") =>
              items \subseteq items'
       /\ (finish_select_category /\ last'.reply = "Removed from") =>
              \A k \in 1..Len(batch[1].lines) :
                  batch[1].lines[k].mark \in {"removed", "not found"}]_vars

-----------------------------------------------------------------------------
(* The category a scan button stands for *)

\* C35: for every category name the add-category flow has accepted (names
\* with ':' included), pressing that category's button in the scan flow
\* applies the batch to the category of exactly that name, the name the
\* pantry view and the delete-category action decode from their tokens.
C35_ScanButtonNamesCategory ==
    [][\A c \in categories :
          (/\ c.owner_id = User
           /\ webapp_select_category(User, User, <<"scancat">> \o c.name))
          => /\ batch' # None
             /\ batch'[1].category = c.name]_vars

-----------------------------------------------------------------------------
(* Deleting a default category *)

DefaultsList == NextId(categories) <= MaxId /\ categories_command(User, User)

DefaultsPantry == NextId(categories) <= MaxId /\ pantry_command(User, User)

DefaultsStart == /\ NextId(categories) <= MaxId
                 /\ start_command(User, User, NoArgs)

DefaultsSend ==
    /\ NextId(categories) <= MaxId
    /\ webapp_scan_entry(User, User, Payload(None, Some("0001"), Some("add")))

DefaultsPress == \E o \in offered : category_delete_cb(User, User, o[2])

DefaultsTyped == \E t \in RaceNames :
                     /\ NextId(categories) <= MaxId
                     /\ received_category_name(User, User, t)

NextDefaults ==
    \/ DefaultsList
    \/ DefaultsPantry
    \/ DefaultsStart
    \/ DefaultsSend
    \/ ScanCancel
    \/ DefaultsPress
    \/ add_category_entry(User, User)
    \/ DefaultsTyped

SpecDefaults == Init /\ [][NextDefaults]_vars

\* name was listed with its delete button and is not a category of the owner
\* any more: only category_delete_cb takes a category away
Deleted(name) ==
    /\ <<User, <<"catdel">> \o name>> \in offered
    /\ name \notin Range(get_categories(categories, User))

\* C36: a category removed through the delete-category action stays absent
\* from the owner's get_categories result until add_category is called with
\* that name again: /pantry, /categories, /start and the start of a scan do
\* not bring it back.
C36_DeletedStaysDeleted ==
    [][\A name \in RaceNames :
          (/\ Deleted(name)
           /\ name \in Range(get_categories(categories', User)))
          => \E t \in RaceNames : /\ StripText(t) = name
                                  /\ received_category_name(User, User, t)]_vars

-----------------------------------------------------------------------------
(* Every workflow on one small pantry: scanning, the per-unit buttons and *)
(* the review                                                             *)

\* the private chat after one scan of 0001 was added to Pantry while the
\* catalog was down and the category was opened from /pantry
InitVerified ==
    /\ items = Stocked(1)
    /\ categories = _ensure_owner_categories({}, User, User)
    /\ cache = {}
    /\ user_data = [u \in Users |-> EmptyData]
    /\ scan_conv = [s \in Sessions |-> END]
    /\ category_conv = [s \in Sessions |-> END]
    /\ review_conv = [s \in Sessions |-> END]
    /\ batch = None
    /\ offered = CategoryView(Stocked(1), User, User, <<"Pantry">>).buttons
    /\ last = [handler |-> "pantry_category_cb", reply |-> "products",
               category |-> <<"Pantry">>,
               view |-> CategoryView(Stocked(1), User, User, <<"Pantry">>).view]
    /\ link_open = [u \in Users |-> FALSE]

VerifiedSend == \E md \in {"add", "remove"} :
                    webapp_scan_entry(User, User,
                                      Payload(None, Some("0001"), Some(md)))

\* a category button; an add batch is started while the pantry has room
VerifiedSelect ==
    /\ \/ GetKey(user_data, User, "scan_mode", "add") = "remove"
       \/ NextId(items) <= MaxDocs
    /\ \E o \in offered : webapp_select_category(User, User, o[2])

VerifiedAdd == process_add_scan(Failed)

VerifiedUnit == NextId(items) <= MaxDocs /\ UnitAdd

VerifiedName == review_received_name(User, User, "Tea")

VerifiedBarcode == review_received_barcode(User, User, "0002")

NextVerified ==
    \/ VerifiedSend
    \/ VerifiedSelect
    \/ process_remove_scan
    \/ VerifiedAdd
    \/ finish_select_category
    \/ VerifiedUnit
    \/ review_command(User, User)
    \/ ReviewPress
    \/ VerifiedName
    \/ VerifiedBarcode

SpecVerified == InitVerified /\ [][NextVerified]_vars

\* C37: verification is monotonic per item: no step of a workflow (scan add
\* or remove, per-unit add, ok, rename, remove, fixcode, skip) turns the
\* verified flag of an item that exists before and after the step from true
\* to false.
C37_VerifiedStaysVerified ==
    [][\A i \in items, j \in items' :
          (i.id = j.id /\ i.verified) => j.verified]_vars

\* a lot verified with ok under 0001 and then re-targeted by fixcode to 0002
\* together with a lot scanned later: it is still verified
C37_Witness ==
    \E i \in items : /\ i.verified
                     /\ i.barcode = "0002"
                     /\ i.product_name = Unknown("0001")

-----------------------------------------------------------------------------
(* Progress of a review session *)

\* the review shows barcode and the owner still has unverified lots of it
Presented(barcode) ==
    /\ user_data[User]["review_barcode"] = Some(barcode)
    /\ barcode \in UnverifiedBarcodes(User)

FewerToReview ==
    Cardinality(UnverifiedBarcodes(User)')
        < Cardinality(UnverifiedBarcodes(User))

\* C38: a review session makes progress: each ok, rename or remove on the
\* presented product strictly decreases the number of distinct unverified
\* barcodes of the owner (no step of these adds an item), so a session that
\* keeps choosing them reaches the nothing-to-verify state.
C38_ReviewMakesProgress ==
    [][\A b \in Barcodes :
          Presented(b) =>
              /\ review_action_cb(User, User, <<"rev", "ok", b>>)
                     => FewerToReview
              /\ review_action_cb(User, User, <<"rev", "remove", b>>)
                     => FewerToReview
              /\ (/\ review_conv[<<User, User>>] = TYPING_NAME
                  /\ review_received_name(User, User, "Tea"))
                     => FewerToReview]_vars

-----------------------------------------------------------------------------
(* What a barcode fix leaves alone *)

\* the barcodes of the rows review works through
ReviewRows(its) ==
    LET rows == get_unverified_items(its, User, UNVERIFIED_SIZE)
    IN  {rows[k].barcode : k \in 1..Len(rows)}

\* item i before a fix of barcode old to barcode new, and the same item j
\* after it
FixcodeFrame(i, j, old, new) ==
    /\ j.verified = i.verified
    /\ j.owner_id = i.owner_id
    /\ j.category = i.category
    /\ j.quantity = i.quantity
    /\ j.added_at = i.added_at
    /\ j.barcode # i.barcode => (i.barcode = old /\ j.barcode = new)
    /\ j.product_name # i.product_name =>
           /\ i.barcode = old
           /\ j.barcode = new
           /\ \E p \in cache : /\ p.barcode = new
                               /\ p.product_name = j.product_name
    /\ (~i.verified /\ i.barcode = old /\ j.barcode = new) =>
           new \in ReviewRows(items')

\* C39: fixcode changes only the barcode (and, when the cache knows the new
\* barcode, the product name) of the items it re-targets: verified flag,
\* owner, category and quantity stay, no item is added or deleted, the
\* product cache is not written, and items that were unverified under the old
\* barcode are presented by review under the new one.
C39_FixcodeFrame ==
    [][\A t \in BarcodeTyped :
          (/\ review_received_barcode(User, User, t)
           /\ last'.reply = "updated")
          => /\ cache' = cache
             /\ {j.id : j \in items'} = {i.id : i \in items}
             /\ \A i \in items, j \in items' :
                    i.id = j.id =>
                        FixcodeFrame(i, j,
                                     user_data[User]["review_barcode"][1],
                                     StripStr(t))]_vars

\* an unverified lot re-targeted to 0002, which the cache knows as Tea
C39_Witness ==
    /\ last.handler = "review_received_barcode"
    /\ last.reply = "updated"
    /\ \E i \in items : /\ ~i.verified
                        /\ i.barcode = "0002"
                        /\ i.product_name = "Tea"

====
